---- MODULE Spec2Model ----
(***************************************************************************)
(* Audit-log lifecycle of coraza-traefik-middleware: the LogProcessor      *)
(* (src/src/audit/log_processor.go) rotating, parsing and expiring the     *)
(* audit log, and the request handler (src/unnamed/part_003, wafHandler)   *)
(* that shares the processor's mutex while the engine appends to the log.  *)
(*                                                                         *)
(* The audit-log directory is the variable dir: a function from entry      *)
(* names to entries.  Names are sequences of characters, so that the       *)
(* backup naming code (FormatInt / HasPrefix / TrimPrefix / ParseInt) is   *)
(* modelled by what it does.  Every path the processor builds is           *)
(* path.Join(auditLogDir, name), so an entry is identified by its name.    *)
(***************************************************************************)
EXTENDS Integers, Sequences, FiniteSets, TLC

(* ------------------------------ bounds --------------------------------- *)
\* direct concurrent callers of rotateLogs (TestRotateAuditLogsConcurrently)
NumRotators == 2
\* lines the live file may hold in the initial state
MaxInitLines == 2
\* audit lines the request handlers append in one behaviour
MaxAppends == 1
\* injected I/O failures in one behaviour
MaxFaults == 1
\* lines of a file handed to ProcessLogFile directly
MaxScanLines == 3
\* the wall clock runs over the seconds 0 .. MaxSec
MaxSec == 1
\* clock readings per second (time.Now() has sub-second resolution)
Resolution == 2
\* entries beside the live file in an initial directory of the expiration runs
MaxEntries == 2
\* the retention LogExpiration ranges over 0 .. MaxRetention clock readings
MaxRetention == 2

(* --------------------------- names and text ---------------------------- *)
Digits == <<"0", "1", "2", "3", "4", "5", "6", "7", "8", "9">>

DigitChars == {Digits[i] : i \in 1..10}

DigitValue(c) == (CHOOSE i \in 1..10 : Digits[i] = c) - 1

\* strconv.FormatInt(n, 10)
RECURSIVE FormatNat(_)
FormatNat(n) ==
    IF n < 10 THEN <<Digits[n + 1]>>
    ELSE FormatNat(n \div 10) \o <<Digits[(n % 10) + 1]>>

FormatInt(n) == IF n < 0 THEN <<"-">> \o FormatNat(-n) ELSE FormatNat(n)

RECURSIVE DigitsValue(_)
DigitsValue(s) ==
    IF s = <<>> THEN 0
    ELSE 10 * DigitsValue(SubSeq(s, 1, Len(s) - 1)) + DigitValue(s[Len(s)])

AllDigits(s) == \A i \in 1..Len(s) : s[i] \in DigitChars

\* strconv.ParseInt(s, 10, 64): an optional sign, then one or more digits
ParseInt(s) ==
    LET signed == s # <<>> /\ s[1] \in {"+", "-"}
        body   == IF signed THEN Tail(s) ELSE s
    IN  IF body = <<>> \/ ~AllDigits(body)
        THEN [ok |-> FALSE, val |-> 0]
        ELSE [ok |-> TRUE,
              val |-> IF signed /\ s[1] = "-" THEN -DigitsValue(body)
                      ELSE DigitsValue(body)]

\* strings.HasPrefix
HasPrefix(s, pre) == Len(s) >= Len(pre) /\ SubSeq(s, 1, Len(pre)) = pre

\* strings.TrimPrefix
TrimPrefix(s, pre) ==
    IF HasPrefix(s, pre) THEN SubSeq(s, Len(pre) + 1, Len(s)) ELSE s

\* p.auditLogFile: the base name of the live audit log
auditLogFile == <<"a">>

\* time.Time.Unix(): whole seconds of a clock reading
Unix(t) == t \div Resolution

\* time.Unix(sec, 0)
TimeOfUnix(sec) == sec * Resolution

\* a backup name built without the separator
generateNewBackupFilenameNoSeparator(timestamp) ==
    auditLogFile \o FormatInt(Unix(timestamp))

generateNewBackupFilename(timestamp) ==
    auditLogFile \o <<".">> \o FormatInt(Unix(timestamp))

parseTimestampFromBackupFilename(filename) ==
    LET timestampStr == TrimPrefix(filename, auditLogFile \o <<".">>)
        parsed       == ParseInt(timestampStr)
    IN  [ok |-> parsed.ok, time |-> TimeOfUnix(parsed.val)]

isBackupFile(filename) ==
    /\ HasPrefix(filename, auditLogFile \o <<".">>)
    /\ parseTimestampFromBackupFilename(filename).ok

(* ------------------------------ lines ---------------------------------- *)
\* One line of the audit log.  json is what becomes of it in ProcessLogFile:
\* "valid" (json.Unmarshal into Log returns nil and so does the log handler),
\* "invalid" (json.Unmarshal returns an error) or "refused" (json.Unmarshal
\* returns nil, the log handler an error).  id tells lines apart.
Line(i, j) == [id |-> i, json |-> j]

\* the lines the engine writes, and damaged ones; the default log handler
\* refuses none
JsonKinds == {"valid", "invalid"}

\* the lines a file handed to ProcessLogFile may hold when the processor's
\* logHandler is one that can return an error
HandledKinds == JsonKinds \cup {"refused"}

RECURSIVE NumberLines(_, _)
NumberLines(kinds, from) ==
    IF kinds = <<>> THEN <<>>
    ELSE <<Line(from, Head(kinds))>> \o NumberLines(Tail(kinds), from + 1)

KindSeqs(n) == UNION {[1..k -> JsonKinds] : k \in 0..n}

(* ----------------------------- the state ------------------------------- *)
VARIABLES
    dir,        \* the audit-log directory: entry name -> [kind, data]
    locked,     \* LogProcessor.Lock (a sync.Mutex)
    now,        \* the wall clock, in clock readings
    pc,         \* where each goroutine is
    copyName,   \* rotateLogs' local copyName, per caller
    result,     \* what a caller's last rotateLogs returned: [filename, err]
    atLock,     \* the live file as a caller's rotateLogs found it when it took the lock
    checked,    \* what the processing job's last checkIfLogsExist returned: [exist, err]
    scanned,    \* the lines of the file the last ProcessLogFile call opened
    calls,      \* the lines the last ProcessLogFile call passed to logHandler, in order
    delivered,  \* every line any ProcessLogFile call has passed to logHandler, in order
    procResult, \* what the last ProcessLogFile call returned, and its scanner.Err()
    LogExpiration, \* the configured retention, in clock readings
    files,      \* expireBackupLogFiles' local files: name -> kind, as os.ReadDir returned them
    sweepNow,   \* expireBackupLogFiles' local now
    initial,    \* the live file's entry in the initial state (never changes)
    written,    \* every line ever written to the live file, in order
    appends,    \* audit lines the request handlers have appended so far
    faults,     \* I/O failures injected so far
    stopSignal,     \* LogProcessor.stopSignal has been closed
    processingDone, \* LogProcessor.processingDone: "nil", "open" or "closed"
    expirationDone, \* LogProcessor.expirationDone: "nil", "open" or "closed"
    jobsDone,       \* Stop's local channel jobsDone: "nil", "open" or "closed"
    ctxDone,        \* the context handed to Stop is done (its deadline has elapsed)
    stopResult,     \* what Stop returned: "none" until it returns, then "nil" or "timeout"
    atStop,         \* "midtick" when both jobs were inside a tick as Stop closed stopSignal
    expResult,      \* what the last expireBackupLogFiles call returned
    ProcessingJobInterval, \* the configured interval of the processing job
    ExpirationJobInterval, \* the configured interval of the expiration job
    logEntry,       \* the Log record handed to the log handler
    handled,        \* calls of the log handler that have returned
    handlerResult,  \* what the last call of the log handler returned
    warnings,       \* records the logger has written at level Warn
    metricAuditLogTransactionsCount, \* the counter vector: labels -> count
    metricAuditLogRuleViolations,    \* the counter vector: labels -> count
    DIRECTIVES,         \* the environment variable: set or not, and its value
    directivesFromEnv,  \* what loadDirectivesFromEnv returned to NewCorazaWAFHandler
    mainPc,             \* where main is, from its start to the servers listening
    incoming,           \* the request as it reaches ProxyHeaderMiddleware
    forwarded,          \* that request as ProxyHeaderMiddleware handed it to next
    nextCalls           \* calls of next.ServeHTTP made by ProxyHeaderMiddleware

vars == <<dir, locked, now, pc, copyName, result, atLock, checked, scanned, calls, delivered,
          procResult, LogExpiration, files, sweepNow, initial, written, appends, faults,
          stopSignal, processingDone, expirationDone, jobsDone, ctxDone, stopResult,
          atStop, expResult, ProcessingJobInterval, ExpirationJobInterval,
          logEntry, handled, handlerResult, warnings, metricAuditLogTransactionsCount,
          metricAuditLogRuleViolations, DIRECTIVES, directivesFromEnv, mainPc, incoming,
          forwarded, nextCalls>>

\* the processing job's own state
jobVars == <<checked, scanned, calls, delivered, procResult>>

\* the expiration job's own state
expVars == <<LogExpiration, files, sweepNow, expResult>>

\* the configuration of the two jobs and the state of Start.../Stop
lifeVars == <<stopSignal, processingDone, expirationDone, jobsDone, ctxDone, stopResult,
              atStop, ProcessingJobInterval, ExpirationJobInterval>>

\* the default log handler's record, its result and what it emits
handlerVars == <<logEntry, handled, handlerResult, warnings, metricAuditLogTransactionsCount,
                 metricAuditLogRuleViolations>>

\* the start of the proxy and the request passing through its middleware
serveVars == <<DIRECTIVES, directivesFromEnv, mainPc, incoming, forwarded, nextCalls>>

\* the audit-log processor's files, goroutines and lifecycle
auditVars == <<dir, locked, now, pc, copyName, result, atLock, jobVars, expVars, initial,
               written, appends, faults, lifeVars>>

Rotators == {<<"rotator", i>> : i \in 1..NumRotators}
Handler == <<"handler", 1>>
Job == <<"processing", 1>>
Expirer == <<"expiration", 1>>
\* the caller of Stop, and the goroutine Stop starts to wait for the jobs
Stopper == <<"stop", 1>>
Waiter == <<"stop", 2>>
Procs == Rotators \cup {Handler, Job, Expirer, Stopper, Waiter}

NoName == <<>>
Absent == [kind |-> "absent", data |-> <<>>]
RegularFile(d) == [kind |-> "file", data |-> d]

Exists(name) == name \in DOMAIN dir

Entry(name) == IF Exists(name) THEN dir[name] ELSE Absent

\* dir with the entry name set to e
WithEntry(d, name, e) ==
    [n \in (DOMAIN d) \cup {name} |-> IF n = name THEN e ELSE d[n]]

\* dir without the entry name
WithoutEntry(d, name) == [n \in (DOMAIN d) \ {name} |-> d[n]]

LiveData == Entry(auditLogFile).data

BackupNames == {n \in DOMAIN dir : n # auditLogFile}

NoResult == [filename |-> NoName, err |-> "none"]

NoCheck == [exist |-> FALSE, err |-> "none"]

NoProcResult == [err |-> "none", scanErr |-> FALSE]

MaxNow == MaxSec * Resolution + (Resolution - 1)

\* an I/O call may fail for reasons outside the program
MayFail == faults < MaxFaults

Fail == faults' = faults + 1

(* ------------------------------ the clock ------------------------------ *)
ClockTick ==
    /\ now < MaxNow
    /\ now' = now + 1
    /\ UNCHANGED <<dir, locked, pc, copyName, result, atLock, jobVars, expVars, initial,
                   written, appends, faults, lifeVars, handlerVars,
                   serveVars>>

(* ------------------------- rotateLogs, step by step -------------------- *)
RotatePcs == {"ropen", "rcreate", "rcopy", "rtrunc"}

\* inside the body of a tick, of either job
TickPcs == {"check", "rlock", "popen", "pscan", "elist", "esweep"} \cup RotatePcs

\* the processing job returning from its loop when rotateLogs fails
AfterRotateReturningOnError(p, e) ==
    IF p = Job THEN (IF e = "nil" THEN "popen" ELSE "exited") ELSE "done"

\* where a caller of rotateLogs continues after it returns: the processing job
\* goes on to ProcessLogFile, or to its next tick on an error
AfterRotate(p, e) ==
    IF p = Job THEN (IF e = "nil" THEN "popen" ELSE "wait") ELSE "done"

\* rotateLogs handing back the backup's name on every return, failed or not
RotateReturnKeepingName(p, name, e) ==
    /\ locked' = FALSE
    /\ result' = [result EXCEPT ![p] = [filename |-> copyName[p], err |-> e]]
    /\ pc' = [pc EXCEPT ![p] = AfterRotate(p, e)]

\* a rotateLogs whose caller keeps the mutex through the rest of its tick
RotateReturnHoldingLock(p, name, e) ==
    /\ locked' = locked
    /\ result' = [result EXCEPT ![p] = [filename |-> name, err |-> e]]
    /\ pc' = [pc EXCEPT ![p] = AfterRotate(p, e)]

\* return from rotateLogs: the deferred p.Lock.Unlock() runs, the caller gets
\* (filename, err)
RotateReturn(p, name, e) ==
    /\ locked' = FALSE
    /\ result' = [result EXCEPT ![p] = [filename |-> name, err |-> e]]
    /\ pc' = [pc EXCEPT ![p] = AfterRotate(p, e)]

\* a rotation that does not take the mutex
RotLockWithoutMutex(p) ==
    /\ pc[p] = "rlock"
    /\ locked' = TRUE
    /\ pc' = [pc EXCEPT ![p] = "ropen"]
    /\ atLock' = [atLock EXCEPT ![p] = Entry(auditLogFile)]
    /\ UNCHANGED <<dir, now, copyName, result, jobVars, expVars, initial, written, appends, faults,
                   lifeVars, handlerVars,
                   serveVars>>

\* p.Lock.Lock()
RotLock(p) ==
    /\ pc[p] = "rlock"
    /\ ~locked
    /\ locked' = TRUE
    /\ pc' = [pc EXCEPT ![p] = "ropen"]
    /\ atLock' = [atLock EXCEPT ![p] = Entry(auditLogFile)]
    /\ UNCHANGED <<dir, now, copyName, result, jobVars, expVars, initial, written, appends, faults,
                   lifeVars, handlerVars,
                   serveVars>>

\* os.Open(logPath)
RotOpen(p) ==
    /\ pc[p] = "ropen"
    /\ \/ /\ Exists(auditLogFile)
          /\ pc' = [pc EXCEPT ![p] = "rcreate"]
          /\ UNCHANGED <<locked, result, faults>>
       \/ /\ ~Exists(auditLogFile)
          /\ RotateReturn(p, NoName, "open")
          /\ UNCHANGED faults
       \/ /\ Exists(auditLogFile)
          /\ MayFail /\ Fail
          /\ RotateReturn(p, NoName, "open")
    /\ UNCHANGED <<dir, now, copyName, atLock, jobVars, expVars, initial, written, appends,
                   lifeVars, handlerVars,
                   serveVars>>

\* copyName := generateNewBackupFilename(time.Now()); os.Create(copyName):
\* creates the file, or truncates it when it exists
RotCreate(p) ==
    /\ pc[p] = "rcreate"
    /\ LET name == generateNewBackupFilename(now) IN
       /\ copyName' = [copyName EXCEPT ![p] = name]
       /\ \/ /\ Entry(name).kind \in {"absent", "file"}
             /\ dir' = WithEntry(dir, name, RegularFile(<<>>))
             /\ pc' = [pc EXCEPT ![p] = "rcopy"]
             /\ UNCHANGED <<locked, result, faults>>
          \/ /\ Entry(name).kind \notin {"absent", "file"}
             /\ RotateReturn(p, NoName, "create")
             /\ UNCHANGED <<dir, faults>>
          \/ /\ Entry(name).kind \in {"absent", "file"}
             /\ MayFail /\ Fail
             /\ RotateReturn(p, NoName, "create")
             /\ UNCHANGED dir
    /\ UNCHANGED <<now, atLock, jobVars, expVars, initial, written, appends, lifeVars, handlerVars,
                   serveVars>>

\* the bytes io.Copy wrote to the backup when it stops after k lines; the
\* backup may have been unlinked since it was created, and then the bytes go
\* to a file no name refers to
CopyInto(d, name, data) ==
    IF name \in DOMAIN d THEN WithEntry(d, name, RegularFile(data)) ELSE d

\* io.Copy(copyFile, auditLog), carrying on to the truncate when it failed
RotCopyIgnoringError(p) ==
    /\ pc[p] = "rcopy"
    /\ \/ /\ dir' = CopyInto(dir, copyName[p], LiveData)
          /\ UNCHANGED faults
       \/ /\ MayFail /\ Fail
          /\ \E k \in 0..(Len(LiveData) - 1) :
                dir' = CopyInto(dir, copyName[p], SubSeq(LiveData, 1, k))
    /\ pc' = [pc EXCEPT ![p] = "rtrunc"]
    /\ UNCHANGED <<locked, result, now, copyName, atLock, jobVars, expVars, initial, written, appends,
                   lifeVars, handlerVars,
                   serveVars>>

\* io.Copy(copyFile, auditLog)
RotCopy(p) ==
    /\ pc[p] = "rcopy"
    /\ \/ /\ dir' = CopyInto(dir, copyName[p], LiveData)
          /\ pc' = [pc EXCEPT ![p] = "rtrunc"]
          /\ UNCHANGED <<locked, result, faults>>
       \/ /\ MayFail /\ Fail
          /\ \E k \in 0..Len(LiveData) :
                dir' = CopyInto(dir, copyName[p], SubSeq(LiveData, 1, k))
          /\ RotateReturn(p, NoName, "copy")
    /\ UNCHANGED <<now, copyName, atLock, jobVars, expVars, initial, written, appends, lifeVars, handlerVars,
                   serveVars>>

\* a rotation that removes the live file instead of truncating it in place
RemoveInsteadOfTruncate(d, name) == WithoutEntry(d, name)

\* a truncate that reports success and leaves the file's content in place
TruncateLeavingData(d, name) == d

\* the directory after a successful os.Truncate(name, 0)
Truncate(d, name) == WithEntry(d, name, RegularFile(<<>>))

\* auditLog.Close(); os.Truncate(logPath, 0); return copyName, nil
RotTruncate(p) ==
    /\ pc[p] = "rtrunc"
    /\ \/ /\ Exists(auditLogFile)
          /\ dir' = Truncate(dir, auditLogFile)
          /\ RotateReturn(p, copyName[p], "nil")
          /\ UNCHANGED faults
       \/ /\ ~Exists(auditLogFile)
          /\ RotateReturn(p, NoName, "truncate")
          /\ UNCHANGED <<dir, faults>>
       \/ /\ Exists(auditLogFile)
          /\ MayFail /\ Fail
          /\ RotateReturn(p, NoName, "truncate")
          /\ UNCHANGED dir
    /\ UNCHANGED <<now, copyName, atLock, jobVars, expVars, initial, written, appends, lifeVars, handlerVars,
                   serveVars>>

(* --------------------------- the request handler ----------------------- *)
\* auditLogProcessor.Lock.Lock()
HandlerLock ==
    /\ pc[Handler] = "hidle"
    /\ appends < MaxAppends
    /\ ~locked
    /\ locked' = TRUE
    /\ pc' = [pc EXCEPT ![Handler] = "serve"]
    /\ UNCHANGED <<dir, now, copyName, result, atLock, jobVars, expVars, initial, written, appends, faults,
                   lifeVars, handlerVars,
                   serveVars>>

\* handler.ServeHTTP(w, r): the engine appends one audit line to the live file
\* (creating it when it does not exist), in the JSON format SetAuditLogDirectives
\* configures; then the deferred Unlock runs
HandlerServe ==
    /\ pc[Handler] = "serve"
    /\ LET line == Line(Len(written) + 1, "valid") IN
         /\ dir' = WithEntry(dir, auditLogFile, RegularFile(Append(LiveData, line)))
         /\ written' = Append(written, line)
    /\ appends' = appends + 1
    /\ locked' = FALSE
    /\ pc' = [pc EXCEPT ![Handler] = "hidle"]
    /\ UNCHANGED <<now, copyName, result, atLock, jobVars, expVars, initial, faults, lifeVars, handlerVars,
                   serveVars>>

\* a wafHandler that unlocks after ServeHTTP returns instead of deferring the
\* Unlock: a panic leaves the mutex locked
HandlerPanicKeepingLock ==
    /\ pc[Handler] = "serve"
    /\ appends' = appends + 1
    /\ pc' = [pc EXCEPT ![Handler] = "hidle"]
    /\ UNCHANGED <<dir, written, locked, now, copyName, result, atLock, jobVars, expVars, initial,
                   faults, lifeVars, handlerVars, serveVars>>

\* handler.ServeHTTP(w, r) panics: wafHandler's deferred Unlock runs as the
\* panic unwinds and PanicMiddleware, the outermost handler, recovers it.  The
\* engine had written the request's audit line by then, or had not.
HandlerPanic ==
    /\ pc[Handler] = "serve"
    /\ \/ LET line == Line(Len(written) + 1, "valid") IN
            /\ dir' = WithEntry(dir, auditLogFile, RegularFile(Append(LiveData, line)))
            /\ written' = Append(written, line)
       \/ UNCHANGED <<dir, written>>
    /\ appends' = appends + 1
    /\ locked' = FALSE
    /\ pc' = [pc EXCEPT ![Handler] = "hidle"]
    /\ UNCHANGED <<now, copyName, result, atLock, jobVars, expVars, initial, faults, lifeVars, handlerVars,
                   serveVars>>

(* --------------------------- ProcessLogFile ---------------------------- *)
\* json.Unmarshal([]byte(line), &logEntry) returns an error
UnmarshalFails(line) == line.json = "invalid"

\* p.logHandler(logEntry): the default handler always returns nil, a handler
\* put in its place returns an error for the records it refuses
logHandler(line) == IF line.json = "refused" THEN "error" ELSE "nil"

\* the scan loop leaving at the first record the handler returns an error for
RECURSIVE ScanLinesStoppingAtHandlerError(_, _, _)
ScanLinesStoppingAtHandlerError(lines, dispatched, processingErrors) ==
    IF lines = <<>>
    THEN [calls |-> dispatched, processingErrors |-> processingErrors]
    ELSE IF UnmarshalFails(Head(lines))
    THEN ScanLinesStoppingAtHandlerError(Tail(lines), dispatched, TRUE)
    ELSE IF logHandler(Head(lines)) # "nil"
    THEN [calls |-> Append(dispatched, Head(lines)), processingErrors |-> TRUE]
    ELSE ScanLinesStoppingAtHandlerError(Tail(lines), Append(dispatched, Head(lines)),
                                         processingErrors)

\* the scan loop leaving at the first line that does not deserialize
RECURSIVE ScanLinesStoppingAtBadLine(_, _, _)
ScanLinesStoppingAtBadLine(lines, dispatched, processingErrors) ==
    IF lines = <<>>
    THEN [calls |-> dispatched, processingErrors |-> processingErrors]
    ELSE IF UnmarshalFails(Head(lines))
    THEN [calls |-> dispatched, processingErrors |-> TRUE]
    ELSE ScanLinesStoppingAtBadLine(Tail(lines), Append(dispatched, Head(lines)),
                                    processingErrors \/ logHandler(Head(lines)) # "nil")

\* for scanner.Scan() { ... } over the lines the scanner yields
RECURSIVE ScanLines(_, _, _)
ScanLines(lines, dispatched, processingErrors) ==
    IF lines = <<>>
    THEN [calls |-> dispatched, processingErrors |-> processingErrors]
    ELSE IF UnmarshalFails(Head(lines))
    THEN ScanLines(Tail(lines), dispatched, TRUE)
    ELSE ScanLines(Tail(lines), Append(dispatched, Head(lines)),
                   processingErrors \/ logHandler(Head(lines)) # "nil")

\* what ProcessLogFile returns once the scan loop has ended
ProcessLogFileReturn(processingErrors, scanErr) ==
    IF processingErrors THEN "errors"
    ELSE IF scanErr THEN "read"
    ELSE "nil"

\* os.Open(filename) in ProcessLogFile, called by the processing job with the
\* name rotateLogs returned
ProcOpen ==
    /\ pc[Job] = "popen"
    /\ calls' = <<>>
    /\ \/ /\ Exists(result[Job].filename)
          /\ scanned' = dir[result[Job].filename].data
          /\ pc' = [pc EXCEPT ![Job] = "pscan"]
          /\ UNCHANGED <<procResult, faults>>
       \/ /\ ~Exists(result[Job].filename)
          /\ scanned' = <<>>
          /\ procResult' = [err |-> "open", scanErr |-> FALSE]
          /\ pc' = [pc EXCEPT ![Job] = "wait"]
          /\ UNCHANGED faults
       \/ /\ Exists(result[Job].filename)
          /\ MayFail /\ Fail
          /\ scanned' = <<>>
          /\ procResult' = [err |-> "open", scanErr |-> FALSE]
          /\ pc' = [pc EXCEPT ![Job] = "wait"]
    /\ UNCHANGED <<dir, locked, now, copyName, result, atLock, checked, delivered, expVars,
                   initial, written, appends, lifeVars, handlerVars,
                   serveVars>>

\* a ProcessLogFile that disposes of the backup once it has parsed it
ProcScanRemovingFile ==
    /\ pc[Job] = "pscan"
    /\ LET r == ScanLines(scanned, <<>>, FALSE) IN
         /\ calls' = r.calls
         /\ delivered' = delivered \o r.calls
         /\ procResult' = [err |-> ProcessLogFileReturn(r.processingErrors, FALSE),
                           scanErr |-> FALSE]
    /\ dir' = WithoutEntry(dir, result[Job].filename)
    /\ pc' = [pc EXCEPT ![Job] = "wait"]
    /\ UNCHANGED <<locked, now, copyName, result, atLock, checked, scanned,
                   expVars, initial, written, appends, faults, lifeVars, handlerVars,
                   serveVars>>

\* the scan of the opened file, the handler calls it makes and the return; the
\* scanner reads through the open descriptor, so the lines are those the file held
\* when it was opened.  A read failure ends the scan after k lines.
ProcScan ==
    /\ pc[Job] = "pscan"
    /\ \/ /\ LET r == ScanLines(scanned, <<>>, FALSE) IN
             /\ calls' = r.calls
             /\ delivered' = delivered \o r.calls
             /\ procResult' = [err |-> ProcessLogFileReturn(r.processingErrors, FALSE),
                               scanErr |-> FALSE]
          /\ UNCHANGED faults
       \/ /\ MayFail /\ Fail
          /\ \E k \in 0..Len(scanned) :
               LET r == ScanLines(SubSeq(scanned, 1, k), <<>>, FALSE) IN
               /\ calls' = r.calls
               /\ delivered' = delivered \o r.calls
               /\ procResult' = [err |-> ProcessLogFileReturn(r.processingErrors, TRUE),
                                 scanErr |-> TRUE]
    /\ pc' = [pc EXCEPT ![Job] = "wait"]
    /\ UNCHANGED <<dir, locked, now, copyName, result, atLock, checked, scanned,
                   expVars, initial, written, appends, lifeVars, handlerVars,
                   serveVars>>

(* --------------------------- the processing job ------------------------ *)
\* checkIfLogsExist treating an empty file as data to process
checkIfLogsExistIgnoringSize(entry, statFails) ==
    IF entry.kind = "absent" THEN [exist |-> FALSE, err |-> "nil"]
    ELSE IF statFails THEN [exist |-> FALSE, err |-> "stat"]
    ELSE [exist |-> TRUE, err |-> "nil"]

\* checkIfLogsExist, given the live file's entry and whether os.Stat fails for
\* another reason than the file not existing
checkIfLogsExist(entry, statFails) ==
    IF entry.kind = "absent" THEN [exist |-> FALSE, err |-> "nil"]
    ELSE IF statFails THEN [exist |-> FALSE, err |-> "stat"]
    ELSE IF Len(entry.data) = 0 THEN [exist |-> FALSE, err |-> "nil"]
    ELSE [exist |-> TRUE, err |-> "nil"]

\* a ticker that starts a tick body at each tick, whether or not the body of
\* the tick before has ended
JobTickWhileBusy ==
    /\ pc[Job] \in {"wait"} \cup TickPcs
    /\ pc' = [pc EXCEPT ![Job] = "check"]
    /\ UNCHANGED <<dir, locked, now, copyName, result, atLock, jobVars, expVars, initial,
                   written, appends, faults, lifeVars, handlerVars,
                   serveVars>>

\* case <-ticker.C: a tick of the processing job begins
JobTick ==
    /\ pc[Job] = "wait"
    /\ pc' = [pc EXCEPT ![Job] = "check"]
    /\ UNCHANGED <<dir, locked, now, copyName, result, atLock, jobVars, expVars, initial,
                   written, appends, faults, lifeVars, handlerVars,
                   serveVars>>

\* exist, err := p.checkIfLogsExist() and the two continue statements after it
JobCheck ==
    /\ pc[Job] = "check"
    /\ \/ /\ checked' = checkIfLogsExist(Entry(auditLogFile), FALSE)
          /\ UNCHANGED faults
       \/ /\ Exists(auditLogFile)
          /\ MayFail /\ Fail
          /\ checked' = checkIfLogsExist(Entry(auditLogFile), TRUE)
    /\ pc' = [pc EXCEPT ![Job] =
                 IF checked'.err = "nil" /\ checked'.exist THEN "rlock" ELSE "wait"]
    /\ UNCHANGED <<dir, locked, now, copyName, result, atLock, scanned, calls, delivered,
                   procResult, expVars, initial, written, appends, lifeVars, handlerVars,
                   serveVars>>

(* --------------------------- the expiration job ------------------------ *)
\* the loop of expireBackupLogFiles deleting at the retention age already
ExpiredNamesAtRetention(listed, nowT, retention) ==
    {n \in DOMAIN listed :
        /\ listed[n] = "file"
        /\ isBackupFile(n)
        /\ parseTimestampFromBackupFilename(n).ok
        /\ nowT - parseTimestampFromBackupFilename(n).time >= retention}

\* the names the loop of expireBackupLogFiles calls os.Remove on: regular
\* files that isBackupFile accepts, whose timestamp parses and lies more than
\* the retention before now
ExpiredNames(listed, nowT, retention) ==
    {n \in DOMAIN listed :
        /\ listed[n] = "file"
        /\ isBackupFile(n)
        /\ parseTimestampFromBackupFilename(n).ok
        /\ nowT - parseTimestampFromBackupFilename(n).time > retention}

\* case <-ticker.C: a tick of the expiration job begins
ExpTick ==
    /\ pc[Expirer] = "ewait"
    /\ pc' = [pc EXCEPT ![Expirer] = "elist"]
    /\ UNCHANGED <<dir, locked, now, copyName, result, atLock, jobVars, expVars,
                   initial, written, appends, faults, lifeVars, handlerVars,
                   serveVars>>

\* files, err := os.ReadDir(p.auditLogDir); now := time.Now()
ExpList ==
    /\ pc[Expirer] = "elist"
    /\ \/ /\ files' = [n \in DOMAIN dir |-> dir[n].kind]
          /\ sweepNow' = now
          /\ pc' = [pc EXCEPT ![Expirer] = "esweep"]
          /\ UNCHANGED <<expResult, faults>>
       \/ /\ MayFail /\ Fail
          /\ expResult' = "readdir"
          /\ pc' = [pc EXCEPT ![Expirer] = "ewait"]
          /\ UNCHANGED <<files, sweepNow>>
    /\ UNCHANGED <<dir, locked, now, copyName, result, atLock, jobVars, LogExpiration,
                   initial, written, appends, lifeVars, handlerVars,
                   serveVars>>

\* the loop of expireBackupLogFiles returning at the first os.Remove that fails
ExpSweepAbortingOnFailure ==
    /\ pc[Expirer] = "esweep"
    /\ LET expired == ExpiredNames(files, sweepNow, LogExpiration) IN
       \/ /\ dir' = [n \in (DOMAIN dir) \ expired |-> dir[n]]
          /\ expResult' = "nil"
          /\ UNCHANGED faults
       \/ /\ MayFail /\ Fail
          /\ \E removed \in SUBSET (expired \cap DOMAIN dir) :
                /\ removed # expired \cap DOMAIN dir
                /\ dir' = [n \in (DOMAIN dir) \ removed |-> dir[n]]
          /\ expResult' = "remove"
    /\ pc' = [pc EXCEPT ![Expirer] = "ewait"]
    /\ UNCHANGED <<locked, now, copyName, result, atLock, jobVars, LogExpiration, files,
                   sweepNow, initial, written, appends, lifeVars, handlerVars,
                   serveVars>>

\* for _, file := range files { ... }: os.Remove of every expired name; a
\* Remove that fails (the names in failing) is logged and the loop goes on
ExpSweep ==
    /\ pc[Expirer] = "esweep"
    /\ LET expired == ExpiredNames(files, sweepNow, LogExpiration) IN
       \E failing \in SUBSET (expired \cap DOMAIN dir) :
          /\ Cardinality(failing) <= MaxFaults - faults
          /\ faults' = faults + Cardinality(failing)
          /\ dir' = [n \in (DOMAIN dir) \ (expired \ failing) |-> dir[n]]
    /\ expResult' = "nil"
    /\ pc' = [pc EXCEPT ![Expirer] = "ewait"]
    /\ UNCHANGED <<locked, now, copyName, result, atLock, jobVars, LogExpiration, files,
                   sweepNow, initial, written, appends, lifeVars, handlerVars,
                   serveVars>>

(* ----------------------- starting and stopping the jobs ---------------- *)
\* the intervals a processor may be configured with: unset (zero) or positive;
\* when the ticks of a positive interval arrive is left to the scheduler
Intervals == {0, 1}

\* time.NewTicker(d) panics when d is not positive
NewTickerPanics(d) == d <= 0

\* a panic no goroutine recovers ends the process, and every goroutine with it
Panic == pc' = [q \in Procs |-> "crashed"]

Crashed == \E q \in Procs : pc[q] = "crashed"

\* go processor.StartProcessingJob() / go processor.StartExpirationJob(): the
\* goroutine exists and has not run its first statement
Launch(p) ==
    /\ pc[p] = "off"
    /\ pc[Stopper] = "sidle"
    /\ pc' = [pc EXCEPT ![p] = "launched"]
    /\ UNCHANGED <<dir, locked, now, copyName, result, atLock, jobVars, expVars, initial,
                   written, appends, faults, lifeVars, handlerVars,
                   serveVars>>

\* StartProcessingJob up to its loop: time.NewTicker(p.ProcessingJobInterval);
\* p.processingDone = make(chan struct{})
StartProcessingJob ==
    /\ pc[Job] = "launched"
    /\ IF NewTickerPanics(ProcessingJobInterval)
       THEN Panic /\ UNCHANGED processingDone
       ELSE /\ processingDone' = "open"
            /\ pc' = [pc EXCEPT ![Job] = "wait"]
    /\ UNCHANGED <<dir, locked, now, copyName, result, atLock, jobVars, expVars, initial,
                   written, appends, faults, stopSignal, expirationDone, jobsDone, ctxDone,
                   stopResult, atStop, ProcessingJobInterval, ExpirationJobInterval, handlerVars,
                   serveVars>>

\* StartExpirationJob up to its loop: time.NewTicker(p.ExpirationJobInterval);
\* p.expirationDone = make(chan struct{})
StartExpirationJob ==
    /\ pc[Expirer] = "launched"
    /\ IF NewTickerPanics(ExpirationJobInterval)
       THEN Panic /\ UNCHANGED expirationDone
       ELSE /\ expirationDone' = "open"
            /\ pc' = [pc EXCEPT ![Expirer] = "ewait"]
    /\ UNCHANGED <<dir, locked, now, copyName, result, atLock, jobVars, expVars, initial,
                   written, appends, faults, stopSignal, processingDone, jobsDone, ctxDone,
                   stopResult, atStop, ProcessingJobInterval, ExpirationJobInterval, handlerVars,
                   serveVars>>

\* the processing job's select staying in the loop whatever stopSignal is
JobStopIgnored ==
    /\ pc[Job] = "wait"
    /\ stopSignal
    /\ UNCHANGED vars

\* case <-p.stopSignal: return, in StartProcessingJob; the deferred
\* close(p.processingDone) runs
JobStop ==
    /\ pc[Job] = "wait"
    /\ stopSignal
    /\ processingDone' = "closed"
    /\ pc' = [pc EXCEPT ![Job] = "exited"]
    /\ UNCHANGED <<dir, locked, now, copyName, result, atLock, jobVars, expVars, initial,
                   written, appends, faults, stopSignal, expirationDone, jobsDone, ctxDone,
                   stopResult, atStop, ProcessingJobInterval, ExpirationJobInterval, handlerVars,
                   serveVars>>

\* case <-p.stopSignal: return, in StartExpirationJob; the deferred
\* close(p.expirationDone) runs
ExpStop ==
    /\ pc[Expirer] = "ewait"
    /\ stopSignal
    /\ expirationDone' = "closed"
    /\ pc' = [pc EXCEPT ![Expirer] = "exited"]
    /\ UNCHANGED <<dir, locked, now, copyName, result, atLock, jobVars, expVars, initial,
                   written, appends, faults, stopSignal, processingDone, jobsDone, ctxDone,
                   stopResult, atStop, ProcessingJobInterval, ExpirationJobInterval, handlerVars,
                   serveVars>>

\* the job is between receiving a tick and returning to its select
MidTick(p) == pc[p] \in TickPcs

\* Stop up to its select: close(p.stopSignal); jobsDone := make(chan struct{});
\* go func() { ... }()
StopClose ==
    /\ pc[Stopper] = "sidle"
    /\ stopSignal' = TRUE
    /\ jobsDone' = "open"
    /\ atStop' = IF MidTick(Job) /\ MidTick(Expirer) THEN "midtick" ELSE "other"
    /\ pc' = [pc EXCEPT ![Stopper] = "sselect", ![Waiter] = "wproc"]
    /\ UNCHANGED <<dir, locked, now, copyName, result, atLock, jobVars, expVars, initial,
                   written, appends, faults, processingDone, expirationDone, ctxDone,
                   stopResult, ProcessingJobInterval, ExpirationJobInterval, handlerVars,
                   serveVars>>

\* the waiting goroutine receiving from p.processingDone without the nil check:
\* a receive from a nil channel blocks for ever
WaitProcessingUnconditionally ==
    /\ pc[Waiter] = "wproc"
    /\ processingDone = "closed"
    /\ pc' = [pc EXCEPT ![Waiter] = "wexp"]
    /\ UNCHANGED <<dir, locked, now, copyName, result, atLock, jobVars, expVars, initial,
                   written, appends, faults, lifeVars, handlerVars,
                   serveVars>>

\* if p.processingDone != nil { <-p.processingDone }: the read sees the field
\* as it is at this moment; a receive from a closed channel returns at once
WaitProcessing ==
    /\ pc[Waiter] = "wproc"
    /\ processingDone # "open"
    /\ pc' = [pc EXCEPT ![Waiter] = "wexp"]
    /\ UNCHANGED <<dir, locked, now, copyName, result, atLock, jobVars, expVars, initial,
                   written, appends, faults, lifeVars, handlerVars,
                   serveVars>>

\* the waiting goroutine closing jobsDone without a look at p.expirationDone
WaitExpirationSkipped ==
    /\ pc[Waiter] = "wexp"
    /\ jobsDone' = "closed"
    /\ pc' = [pc EXCEPT ![Waiter] = "wdone"]
    /\ UNCHANGED <<dir, locked, now, copyName, result, atLock, jobVars, expVars, initial,
                   written, appends, faults, stopSignal, processingDone, expirationDone,
                   ctxDone, stopResult, atStop, ProcessingJobInterval, ExpirationJobInterval, handlerVars,
                   serveVars>>

\* if p.expirationDone != nil { <-p.expirationDone }; close(jobsDone)
WaitExpiration ==
    /\ pc[Waiter] = "wexp"
    /\ expirationDone # "open"
    /\ jobsDone' = "closed"
    /\ pc' = [pc EXCEPT ![Waiter] = "wdone"]
    /\ UNCHANGED <<dir, locked, now, copyName, result, atLock, jobVars, expVars, initial,
                   written, appends, faults, stopSignal, processingDone, expirationDone,
                   ctxDone, stopResult, atStop, ProcessingJobInterval, ExpirationJobInterval, handlerVars,
                   serveVars>>

\* the deadline of the context handed to Stop elapses
CtxDeadline ==
    /\ pc[Stopper] = "sselect"
    /\ ~ctxDone
    /\ ctxDone' = TRUE
    /\ UNCHANGED <<dir, locked, now, pc, copyName, result, atLock, jobVars, expVars, initial,
                   written, appends, faults, stopSignal, processingDone, expirationDone,
                   jobsDone, stopResult, atStop, ProcessingJobInterval, ExpirationJobInterval, handlerVars,
                   serveVars>>

\* select { case <-ctx.Done(): return ctx.Err(); case <-jobsDone: return nil }
StopReturn ==
    /\ pc[Stopper] = "sselect"
    /\ \/ ctxDone /\ stopResult' = "timeout"
       \/ jobsDone = "closed" /\ stopResult' = "nil"
    /\ pc' = [pc EXCEPT ![Stopper] = "sreturned"]
    /\ UNCHANGED <<dir, locked, now, copyName, result, atLock, jobVars, expVars, initial,
                   written, appends, faults, stopSignal, processingDone, expirationDone,
                   jobsDone, ctxDone, atStop, ProcessingJobInterval, ExpirationJobInterval, handlerVars,
                   serveVars>>

(* ------------------------ the default log handler ---------------------- *)
\* a record carries at most MaxMessages messages, and the handler is called
\* at most MaxHandled times
MaxMessages == 2

MaxHandled == 2

\* the label value "unknown" as characters, like the status codes strconv.Itoa
\* formats and the rule identifiers fmt.Sprintf builds
Unknown == <<"u", "n", "k", "n", "o", "w", "n">>

\* url.Parse(request.URI) for the URIs the records carry
UrlParse(uri) ==
    CASE uri = "/login"     -> [err |-> "nil", Host |-> "", Path |-> "/login"]
      [] uri = "http://h/x" -> [err |-> "nil", Host |-> "h", Path |-> "/x"]
      [] OTHER              -> [err |-> "parse", Host |-> "", Path |-> ""]

\* Transaction.Request and Transaction.Response are pointers: nil, or a value
NilRequest == [isNil |-> TRUE, Method |-> "", URI |-> ""]

NilResponse == [isNil |-> TRUE, Status |-> 0]

Requests ==
    {NilRequest} \cup {[isNil |-> FALSE, Method |-> "GET", URI |-> u] :
                          u \in {"/login", "http://h/x", ":bad"}}

Responses == {NilResponse, [isNil |-> FALSE, Status |-> 403]}

\* Message values: the rule's file and id
Messages == {[Data |-> [File |-> f, ID |-> i]] : f \in {<<"r">>, <<"s">>}, i \in {1, 10}}

\* the Log records: a transaction and up to MaxMessages messages
Logs ==
    {[Transaction |-> [Request |-> rq, Response |-> rs], Messages |-> m] :
        rq \in Requests, rs \in Responses,
        m \in UNION {[1..n -> Messages] : n \in 0..MaxMessages}}

NoLog == [Transaction |-> [Request |-> NilRequest, Response |-> NilResponse], Messages |-> <<>>]

\* counter.WithLabelValues(labels...).Inc()
Inc(counter, labels) ==
    [l \in (DOMAIN counter) \cup {labels} |->
        IF l = labels THEN (IF l \in DOMAIN counter THEN counter[l] + 1 ELSE 1)
        ELSE counter[l]]

\* method, host and path as both metric functions derive them from the request
RequestLabels(request) ==
    IF request.isNil
    THEN [method |-> "unknown", host |-> "unknown", path |-> "unknown"]
    ELSE LET uri == UrlParse(request.URI) IN
         [method |-> request.Method,
          host |-> IF uri.err = "nil" THEN uri.Host ELSE "unknown",
          path |-> IF uri.err = "nil" THEN uri.Path ELSE "unknown"]

\* the transactions counter after sendTransactionMetrics(log)
sendTransactionMetrics(counter, log) ==
    LET response   == log.Transaction.Response
        statusCode == IF response.isNil THEN Unknown ELSE FormatInt(response.Status)
        l          == RequestLabels(log.Transaction.Request)
    IN  Inc(counter, <<statusCode, l.method, l.host, l.path>>)

\* fmt.Sprintf("%s-%d", msg.Data.File, msg.Data.ID)
RuleID(msg) == msg.Data.File \o <<"-">> \o FormatInt(msg.Data.ID)

\* for _, msg := range log.Messages { ... .Inc() }
RECURSIVE IncPerMessage(_, _, _)
IncPerMessage(counter, messages, l) ==
    IF messages = <<>> THEN counter
    ELSE IncPerMessage(Inc(counter, <<RuleID(Head(messages)), l.method, l.host, l.path>>),
                       Tail(messages), l)

\* rule-violation metrics counting a record once, under its first message
sendRuleViolationMetricsOncePerRecord(counter, log) ==
    IncPerMessage(counter, SubSeq(log.Messages, 1, 1), RequestLabels(log.Transaction.Request))

\* the rule-violations counter after sendRuleViolationMetrics(log)
sendRuleViolationMetrics(counter, log) ==
    IncPerMessage(counter, log.Messages, RequestLabels(log.Transaction.Request))

\* defaultLogHandler(log): what it returns, and the warnings and counters after it
defaultLogHandler(log) ==
    IF Len(log.Messages) = 0
    THEN [err |-> "nil", warnings |-> warnings,
          transactions |-> metricAuditLogTransactionsCount,
          violations |-> metricAuditLogRuleViolations]
    ELSE [err |-> "nil", warnings |-> warnings + 1,
          transactions |-> sendTransactionMetrics(metricAuditLogTransactionsCount, log),
          violations |-> sendRuleViolationMetrics(metricAuditLogRuleViolations, log)]

\* p.logHandler(logEntry), as ProcessLogFile calls it for a line's record
LogHandlerCall ==
    /\ handled < MaxHandled
    /\ LET r == defaultLogHandler(logEntry) IN
         /\ handlerResult' = r.err
         /\ warnings' = r.warnings
         /\ metricAuditLogTransactionsCount' = r.transactions
         /\ metricAuditLogRuleViolations' = r.violations
    /\ handled' = handled + 1
    /\ UNCHANGED <<logEntry, auditVars, serveVars>>

\* no record has been handled: the counters are as promauto registered them
HandlerUnused ==
    /\ logEntry = NoLog
    /\ handled = 0
    /\ handlerResult = "none"
    /\ warnings = 0
    /\ metricAuditLogTransactionsCount = <<>>
    /\ metricAuditLogRuleViolations = <<>>

(* ------------------- the proxy: start-up and requests ------------------ *)
\* requests the WAF server handles
MaxRequests == 1

\* the process environment: DIRECTIVES unset, or set to a value
Envs ==
    {[set |-> FALSE, value |-> ""]}
    \cup {[set |-> TRUE, value |-> v] : v \in {"", "SecRuleEngine On", "SecDebugLogLevel 9"}}

\* os.Getenv
Getenv(env) == IF env.set THEN env.value ELSE ""

\* a loader that hands back whatever the environment holds
loadDirectivesFromEnvAllowingEmpty(env) == [directives |-> Getenv(env), err |-> "nil"]

loadDirectivesFromEnv(env) ==
    LET directives == Getenv(env) IN
    IF directives = ""
    THEN [directives |-> "", err |-> "DIRECTIVES environment variable is required"]
    ELSE [directives |-> directives, err |-> "nil"]

NoDirectives == [directives |-> "", err |-> "none"]

\* strings.IndexByte / strings.LastIndexByte, counting from 1; 0 when c is not in s
IndexByte(s, c) ==
    IF \E i \in 1..Len(s) : s[i] = c
    THEN CHOOSE i \in 1..Len(s) : s[i] = c /\ \A j \in 1..(i - 1) : s[j] # c
    ELSE 0

LastIndexByte(s, c) ==
    IF \E i \in 1..Len(s) : s[i] = c
    THEN CHOOSE i \in 1..Len(s) : s[i] = c /\ \A j \in (i + 1)..Len(s) : s[j] # c
    ELSE 0

\* strings.Split(s, sep) for a one-character separator
RECURSIVE Split(_, _)
Split(s, sep) ==
    LET i == IndexByte(s, sep) IN
    IF i = 0 THEN <<s>>
    ELSE <<SubSeq(s, 1, i - 1)>> \o Split(SubSeq(s, i + 1, Len(s)), sep)

\* the white space of the header values
WhiteSpace == {" ", "\t"}

\* a TrimSpace that trims nothing
TrimSpaceNothing(s) == s

\* strings.TrimSpace
RECURSIVE TrimSpace(_)
TrimSpace(s) ==
    IF s = <<>> THEN s
    ELSE IF Head(s) \in WhiteSpace THEN TrimSpace(Tail(s))
    ELSE IF s[Len(s)] \in WhiteSpace THEN TrimSpace(SubSeq(s, 1, Len(s) - 1))
    ELSE s

\* net.SplitHostPort
SplitHostPort(hostport) ==
    LET i    == LastIndexByte(hostport, ":")
        end  == IndexByte(hostport, "]")
        fail == [host |-> <<>>, port |-> <<>>, err |-> "address"]
        rest(k) == SubSeq(hostport, k, Len(hostport))
        done(host, j, k) ==
            IF IndexByte(rest(j), "[") > 0 \/ IndexByte(rest(k), "]") > 0 THEN fail
            ELSE [host |-> host, port |-> rest(i + 1), err |-> "nil"]
    IN  IF i = 0 THEN fail
        ELSE IF hostport[1] = "["
        THEN IF end = 0 \/ end + 1 # i THEN fail
             ELSE done(SubSeq(hostport, 2, end - 1), 2, end + 1)
        ELSE IF IndexByte(SubSeq(hostport, 1, i - 1), ":") > 0 THEN fail
             ELSE done(SubSeq(hostport, 1, i - 1), 1, 1)

\* net.JoinHostPort: a host holding a colon or a percent sign goes in brackets
JoinHostPort(host, port) ==
    IF IndexByte(host, ":") > 0 \/ IndexByte(host, "%") > 0
    THEN <<"[">> \o host \o <<"]", ":">> \o port
    ELSE host \o <<":">> \o port

\* r.Header.Get(name): the empty string when the header is absent
HeaderGet(header, name) == IF name \in DOMAIN header THEN header[name] ELSE <<>>

\* the X-Forwarded-For block of ProxyHeaderMiddleware
ForwardedFor(r) ==
    LET xff == HeaderGet(r.Header, "X-Forwarded-For") IN
    IF xff = <<>> THEN r
    ELSE LET ips      == Split(xff, ",")
             clientIP == TrimSpace(ips[1])
             hp       == SplitHostPort(r.RemoteAddr)
         IN  IF Len(ips) > 0 /\ clientIP # <<>>
             THEN [r EXCEPT !.RemoteAddr = IF hp.err = "nil"
                                           THEN JoinHostPort(clientIP, hp.port)
                                           ELSE clientIP \o <<":", "0">>]
             ELSE r

ForwardedProto(r) ==
    LET proto == HeaderGet(r.Header, "X-Forwarded-Proto") IN
    IF proto # <<>> THEN [r EXCEPT !.URL.Scheme = proto] ELSE r

\* the host header applied to the request's Host alone
ForwardedHostOnRequestOnly(r) ==
    LET host == HeaderGet(r.Header, "X-Forwarded-Host") IN
    IF host # <<>> THEN [r EXCEPT !.Host = host] ELSE r

ForwardedHost(r) ==
    LET host == HeaderGet(r.Header, "X-Forwarded-Host") IN
    IF host # <<>> THEN [r EXCEPT !.Host = host, !.URL.Host = host] ELSE r

ForwardedUri(r) ==
    LET uri == HeaderGet(r.Header, "X-Forwarded-Uri") IN
    IF uri # <<>> THEN [r EXCEPT !.URL.Path = uri] ELSE r

ForwardedMethod(r) ==
    LET method == HeaderGet(r.Header, "X-Forwarded-Method") IN
    IF method # <<>> THEN [r EXCEPT !.Method = method] ELSE r

\* the request ProxyHeaderMiddleware hands to next.ServeHTTP
ProxyHeaderMiddleware(r) ==
    ForwardedMethod(ForwardedUri(ForwardedHost(ForwardedProto(ForwardedFor(r)))))

\* a header of a request: absent, or present with a value that may be empty
Opt(values) ==
    {[present |-> FALSE, value |-> <<>>]}
    \cup {[present |-> TRUE, value |-> v] : v \in values \cup {<<>>}}

XffValues ==
    {<<"1">>, <<" ", "1", " ">>, <<"1", ",", "2">>, <<",", ",", ",">>, <<" ", ",", "2">>,
     <<"\t", "1", "\t", ",", "2">>, <<"a", ":", "b">>}

RemoteAddrs ==
    {<<"9", ":", "8">>, <<"9">>, <<"[", "c", ":", "d", "]", ":", "8">>, <<":", ":", "1">>}

HeaderNames ==
    {"X-Forwarded-For", "X-Forwarded-Proto", "X-Forwarded-Host", "X-Forwarded-Uri",
     "X-Forwarded-Method"}

\* the header maps: each forwarded header absent, empty, or holding a value
Headers ==
    {LET o == [n \in HeaderNames |->
                  CASE n = "X-Forwarded-For"    -> x
                    [] n = "X-Forwarded-Proto"  -> p
                    [] n = "X-Forwarded-Host"   -> h
                    [] n = "X-Forwarded-Uri"    -> u
                    [] n = "X-Forwarded-Method" -> m]
     IN  [n \in {k \in HeaderNames : o[k].present} |-> o[n].value] :
        x \in Opt(XffValues), p \in Opt({<<"s">>}), h \in Opt({<<"e">>}),
        u \in Opt({<<"/", "n">>}), m \in Opt({<<"P">>})}

\* the requests reaching the middleware: GET /t, Host l, no scheme
HttpRequests ==
    {[RemoteAddr |-> ra, Host |-> <<"l">>, Method |-> <<"G">>,
      URL |-> [Scheme |-> <<>>, Host |-> <<>>, Path |-> <<"/", "t">>],
      Header |-> hd] : ra \in RemoteAddrs, hd \in Headers}

NoRequest ==
    [RemoteAddr |-> <<>>, Host |-> <<>>, Method |-> <<>>,
     URL |-> [Scheme |-> <<>>, Host |-> <<>>, Path |-> <<>>], Header |-> <<>>]

\* NewCorazaWAFHandler up to the check of loadDirectivesFromEnv's error:
\* log.Fatal ends the process
LoadDirectives ==
    /\ mainPc = "start"
    /\ directivesFromEnv' = loadDirectivesFromEnv(DIRECTIVES)
    /\ mainPc' = IF directivesFromEnv'.err # "nil" THEN "fatal" ELSE "configured"
    /\ UNCHANGED <<DIRECTIVES, incoming, forwarded, nextCalls, auditVars, handlerVars>>

\* the rest of NewCorazaWAFHandler: coraza.NewWAF(cfg) accepts the directives
\* or not (log.Fatal), then the handler chain is built
NewWAF ==
    /\ mainPc = "configured"
    /\ mainPc' \in {"built", "fatal"}
    /\ UNCHANGED <<DIRECTIVES, directivesFromEnv, incoming, forwarded, nextCalls, auditVars,
                   handlerVars>>

\* runServersInBackground: the two servers listen, or ListenAndServe fails and
\* os.Exit(1) ends the process
RunServersInBackground ==
    /\ mainPc = "built"
    /\ mainPc' \in {"listening", "exited"}
    /\ UNCHANGED <<DIRECTIVES, directivesFromEnv, incoming, forwarded, nextCalls, auditVars,
                   handlerVars>>

\* the WAF server hands the client's request to ProxyHeaderMiddleware, which
\* rewrites it and calls next.ServeHTTP(w, r); the client sends the same
\* request up to MaxRequests times
ServeRequest ==
    /\ mainPc = "listening"
    /\ nextCalls < MaxRequests
    /\ forwarded' = ProxyHeaderMiddleware(incoming)
    /\ nextCalls' = nextCalls + 1
    /\ UNCHANGED <<DIRECTIVES, directivesFromEnv, mainPc, incoming, auditVars, handlerVars>>

\* the proxy has not been started
ServerUnused ==
    /\ DIRECTIVES = [set |-> FALSE, value |-> ""]
    /\ directivesFromEnv = NoDirectives
    /\ mainPc = "off"
    /\ incoming = NoRequest
    /\ forwarded = NoRequest
    /\ nextCalls = 0

(* --------- concurrent callers of rotateLogs and request handlers -------- *)
\* NewLogProcessor and the jobs in running: stopSignal is made open, Stop has
\* not been called; a job that is in its loop was started with a positive
\* interval and has made its completion channel
InitLifecycle(running) ==
    /\ stopSignal = FALSE
    /\ processingDone = IF Job \in running THEN "open" ELSE "nil"
    /\ expirationDone = IF Expirer \in running THEN "open" ELSE "nil"
    /\ jobsDone = "nil"
    /\ ctxDone = FALSE
    /\ stopResult = "none"
    /\ atStop = "none"
    /\ expResult = "none"
    /\ ProcessingJobInterval = IF Job \in running THEN 1 ELSE 0
    /\ ExpirationJobInterval = IF Expirer \in running THEN 1 ELSE 0

InitialLive == {Absent} \cup {RegularFile(NumberLines(k, 1)) : k \in KindSeqs(MaxInitLines)}

\* rotateLogs copies bytes: what the lines hold makes no difference to it
InitialLiveRot ==
    {Absent} \cup {RegularFile(NumberLines([i \in 1..k |-> "valid"], 1)) : k \in 0..MaxInitLines}

InitRot ==
    /\ initial \in InitialLiveRot
    /\ dir = IF initial = Absent THEN <<>> ELSE WithEntry(<<>>, auditLogFile, initial)
    /\ locked = FALSE
    /\ now = 0
    /\ pc = [p \in Procs |-> IF p \in Rotators THEN "rlock"
                             ELSE IF p = Handler THEN "hidle" ELSE "off"]
    /\ copyName = [p \in Procs |-> NoName]
    /\ result = [p \in Procs |-> NoResult]
    /\ atLock = [p \in Procs |-> Absent]
    /\ checked = NoCheck
    /\ scanned = <<>>
    /\ calls = <<>>
    /\ delivered = <<>>
    /\ procResult = NoProcResult
    /\ LogExpiration = 0
    /\ files = <<>>
    /\ sweepNow = 0
    /\ written = initial.data
    /\ appends = 0
    /\ faults = 0
    /\ HandlerUnused
    /\ ServerUnused
    /\ InitLifecycle({})

NextRot ==
    \/ ClockTick
    \/ \E p \in Rotators : RotLock(p)
    \/ \E p \in Rotators : RotOpen(p)
    \/ \E p \in Rotators : RotCreate(p)
    \/ \E p \in Rotators : RotCopy(p)
    \/ \E p \in Rotators : RotTruncate(p)
    \/ HandlerLock
    \/ HandlerServe

SpecRot == InitRot /\ [][NextRot]_vars

(* ------------- the processing job beside the request handlers ----------- *)
InitJob ==
    /\ initial \in InitialLive
    /\ dir = IF initial = Absent THEN <<>> ELSE WithEntry(<<>>, auditLogFile, initial)
    /\ locked = FALSE
    /\ now = 0
    /\ pc = [p \in Procs |-> IF p = Job THEN "wait"
                             ELSE IF p = Handler THEN "hidle" ELSE "off"]
    /\ copyName = [p \in Procs |-> NoName]
    /\ result = [p \in Procs |-> NoResult]
    /\ atLock = [p \in Procs |-> Absent]
    /\ checked = NoCheck
    /\ scanned = <<>>
    /\ calls = <<>>
    /\ delivered = <<>>
    /\ procResult = NoProcResult
    /\ LogExpiration = 0
    /\ files = <<>>
    /\ sweepNow = 0
    /\ written = initial.data
    /\ appends = 0
    /\ faults = 0
    /\ HandlerUnused
    /\ ServerUnused
    /\ InitLifecycle({Job})

NextJob ==
    \/ ClockTick
    \/ JobTick
    \/ JobCheck
    \/ RotLock(Job)
    \/ RotOpen(Job)
    \/ RotCreate(Job)
    \/ RotCopy(Job)
    \/ RotTruncate(Job)
    \/ ProcOpen
    \/ ProcScan
    \/ HandlerLock
    \/ HandlerServe

SpecJob == InitJob /\ [][NextJob]_vars

(* ------------------ claims about rotation under the mutex --------------- *)
\* inside rotateLogs' critical section, or inside wafHandler's
InCritical(p) == pc[p] \in RotatePcs \cup {"serve"}

AllRotatorsDone == \A p \in Rotators : pc[p] = "done"

\* C1: at most one goroutine is inside a critical section of the shared lock
\* (rotateLogs between Lock and return, wafHandler between Lock and return):
\* no two rotations, and no rotation and request-handling audit write, are in
\* progress at the same time.
C1_MutualExclusion == Cardinality({p \in Procs : InCritical(p)}) <= 1

\* one rotation is copying while another rotation waits for the lock and a
\* request is still to come; an earlier request has already been served
C1_Witness ==
    \E p, q \in Rotators :
        /\ pc[p] = "rcopy" /\ pc[q] = "rlock"
        /\ appends > 0 /\ pc[Handler] = "hidle"

\* the step shortens or removes the live file
ShrinksLive ==
    /\ Exists(auditLogFile)
    /\ \/ auditLogFile \notin DOMAIN dir'
       \/ Len(dir'[auditLogFile].data) < Len(LiveData)

\* p returns from rotateLogs in this step
ReturnsFromRotate(p) == pc[p] \in RotatePcs /\ pc'[p] \notin RotatePcs

\* C2: the live file is truncated only by a rotation that has copied the whole
\* current content of the live file into its backup file; and a rotation that
\* returns an open, create or copy error leaves the live file as it found it.
C2_CopyBeforeTruncate ==
    [][ /\ ShrinksLive =>
            \E p \in Procs :
                /\ pc[p] = "rtrunc" /\ pc'[p] # "rtrunc"
                /\ Entry(copyName[p]) = RegularFile(LiveData)
                /\ LiveData = atLock[p].data
        /\ \A p \in Procs :
              (ReturnsFromRotate(p) /\ result'[p].err \in {"open", "create", "copy"})
                  => /\ (auditLogFile \in DOMAIN dir') = Exists(auditLogFile)
                     /\ Exists(auditLogFile) => dir'[auditLogFile] = atLock[p]
      ]_vars

\* one rotation failed in its copy and left the content in place; another then
\* copied all of it and truncated
C2_Witness ==
    \E p, q \in Rotators :
        /\ result[p].err = "copy"
        /\ result[q].err = "nil"
        /\ atLock[q].data # <<>>
        /\ Entry(result[q].filename) = RegularFile(atLock[q].data)
        /\ Entry(auditLogFile) = RegularFile(<<>>)

\* the lines held by the backup files on disk
LinesInBackups == UNION {{dir[n].data[k] : k \in 1..Len(dir[n].data)} : n \in BackupNames}

\* C3: after N concurrent rotateLogs calls against a live file holding content
\* C, with nothing appended meanwhile (and no I/O failure), every line of C is
\* in one of the backup files on disk.
C3_NoContentLost ==
    (AllRotatorsDone /\ faults = 0 /\ appends = 0)
        => \A i \in 1..Len(initial.data) : initial.data[i] \in LinesInBackups

\* C4: N concurrent rotateLogs calls against an existing live file all return
\* without error when no I/O call fails, and once all have returned (nothing
\* having been appended) the live file exists with length 0.
C4_ConcurrentRotationsSucceed ==
    /\ \A p \in Rotators :
          (pc[p] = "done" /\ faults = 0 /\ initial # Absent) => result[p].err = "nil"
    /\ (AllRotatorsDone /\ faults = 0 /\ appends = 0 /\ initial # Absent)
          => Entry(auditLogFile) = RegularFile(<<>>)

\* all calls have returned; one of them found the file already emptied by another
C4_Witness ==
    /\ AllRotatorsDone /\ faults = 0 /\ appends = 0
    /\ initial.data # <<>>
    /\ \E p, q \in Rotators :
          /\ atLock[p].data # <<>>
          /\ atLock[q] = RegularFile(<<>>)
          /\ result[p].err = "nil" /\ result[q].err = "nil"

\* C5: each successful rotateLogs call adds one backup file, so N successful
\* rotations leave N backup files (no expiration runs here).
C5_OneBackupPerRotation ==
    (AllRotatorsDone /\ faults = 0)
        => Cardinality(BackupNames) = Cardinality({p \in Rotators : result[p].err = "nil"})

(* ------------------ the expiration job over a directory ---------------- *)
\* entries an audit-log directory may hold beside the live file: a backup of
\* each second 0 .. MaxSec, a directory and a non-regular file so named, and
\* regular files named with a sign or a letter after the '.', with nothing
\* after it, and with another base name
OtherEntries ==
    {<<generateNewBackupFilename(TimeOfUnix(sec)), k>> :
        sec \in 0..MaxSec, k \in {"file", "dir", "other"}}
    \cup {<<n, "file">> : n \in {auditLogFile \o <<".", "+", "0">>,
                                  auditLogFile \o <<".", "-", "1">>,
                                  auditLogFile \o <<".", "x">>,
                                  auditLogFile \o <<".">>,
                                  <<"b", ".", "0">>}}

\* the directories holding the live file and at most MaxEntries other entries
InitialDirsExp ==
    {[n \in {e[1] : e \in S} \cup {auditLogFile} |->
         IF n = auditLogFile THEN RegularFile(<<>>)
         ELSE [kind |-> (CHOOSE e \in S : e[1] = n)[2], data |-> <<>>]] :
     S \in {T \in SUBSET OtherEntries :
               /\ Cardinality(T) <= MaxEntries
               /\ \A e, f \in T : e[1] = f[1] => e = f}}

InitExp ==
    /\ dir \in InitialDirsExp
    /\ initial = dir[auditLogFile]
    /\ locked = FALSE
    /\ now = 0
    /\ pc = [p \in Procs |-> IF p = Expirer THEN "ewait" ELSE "off"]
    /\ copyName = [p \in Procs |-> NoName]
    /\ result = [p \in Procs |-> NoResult]
    /\ atLock = [p \in Procs |-> Absent]
    /\ checked = NoCheck
    /\ scanned = <<>>
    /\ calls = <<>>
    /\ delivered = <<>>
    /\ procResult = NoProcResult
    /\ LogExpiration \in 0..MaxRetention
    /\ files = <<>>
    /\ sweepNow = 0
    /\ written = <<>>
    /\ appends = 0
    /\ faults = 0
    /\ HandlerUnused
    /\ ServerUnused
    /\ InitLifecycle({Expirer})

NextExp ==
    \/ ClockTick
    \/ ExpTick
    \/ ExpList
    \/ ExpSweep

SpecExp == InitExp /\ [][NextExp]_vars

(* ------------------- the two jobs from start to Stop -------------------- *)
\* the live file as the jobs may find it: absent, empty, or holding one line
InitialLiveLife ==
    {Absent, RegularFile(<<>>)} \cup {RegularFile(<<Line(1, j)>>) : j \in JsonKinds}

\* a backup left by an earlier run of the program, in the clock's first second
OldBackup == generateNewBackupFilename(0)

\* the processor as NewLogProcessor returns it, no job started, over a live
\* file from lives and with intervals from intervals; the retention is one
\* second and the clock stands at its last reading throughout
InitLifeOver(lives, intervals) ==
    /\ initial \in lives
    /\ dir = WithEntry(IF initial = Absent THEN <<>> ELSE WithEntry(<<>>, auditLogFile, initial),
                       OldBackup, RegularFile(<<>>))
    /\ locked = FALSE
    /\ now = MaxNow
    /\ pc = [p \in Procs |-> IF p = Stopper THEN "sidle" ELSE "off"]
    /\ copyName = [p \in Procs |-> NoName]
    /\ result = [p \in Procs |-> NoResult]
    /\ atLock = [p \in Procs |-> Absent]
    /\ checked = NoCheck
    /\ scanned = <<>>
    /\ calls = <<>>
    /\ delivered = <<>>
    /\ procResult = NoProcResult
    /\ LogExpiration = Resolution
    /\ files = <<>>
    /\ sweepNow = 0
    /\ written = initial.data
    /\ appends = 0
    /\ faults = 0
    /\ HandlerUnused
    /\ ServerUnused
    /\ stopSignal = FALSE
    /\ processingDone = "nil"
    /\ expirationDone = "nil"
    /\ jobsDone = "nil"
    /\ ctxDone = FALSE
    /\ stopResult = "none"
    /\ atStop = "none"
    /\ expResult = "none"
    /\ ProcessingJobInterval \in intervals
    /\ ExpirationJobInterval \in intervals

InitLife == InitLifeOver(InitialLiveLife, Intervals)

NextLife ==
    \/ Launch(Job)
    \/ Launch(Expirer)
    \/ StartProcessingJob
    \/ StartExpirationJob
    \/ JobTick
    \/ JobCheck
    \/ RotLock(Job)
    \/ RotOpen(Job)
    \/ RotCreate(Job)
    \/ RotCopy(Job)
    \/ RotTruncate(Job)
    \/ ProcOpen
    \/ ProcScan
    \/ JobStop
    \/ ExpTick
    \/ ExpList
    \/ ExpSweep
    \/ ExpStop
    \/ StopClose
    \/ WaitProcessing
    \/ WaitExpiration
    \/ CtxDeadline
    \/ StopReturn

SpecLife == InitLife /\ [][NextLife]_vars

\* the steps of the processing job's goroutine other than its select
JobBody ==
    \/ StartProcessingJob
    \/ JobCheck
    \/ RotLock(Job)
    \/ RotOpen(Job)
    \/ RotCreate(Job)
    \/ RotCopy(Job)
    \/ RotTruncate(Job)
    \/ ProcOpen
    \/ ProcScan

\* the steps of the expiration job's goroutine other than its select
ExpBody == StartExpirationJob \/ ExpList \/ ExpSweep

\* the steps of the goroutine Stop starts
WaiterBody == WaitProcessing \/ WaitExpiration

\* both intervals positive, the live file holding one line
InitFairLife ==
    InitLifeOver({RegularFile(<<Line(1, "valid")>>)}, {d \in Intervals : ~NewTickerPanics(d)})

\* The scheduler runs every goroutine that can take a step, and every system
\* call of a tick returns: a step of a goroutine that is enabled stays enabled
\* until it is taken, so weak fairness of each goroutine's steps gives weak
\* fairness of their disjunction.  A select with several ready cases picks one
\* at random, so a job that finds stopSignal closed again and again at its
\* select takes that case at some point (strong fairness).  Nothing makes a
\* tick arrive, Stop be called or the deadline elapse.
FairLife ==
    /\ InitFairLife
    /\ [][NextLife]_vars
    /\ WF_vars(JobBody \/ ExpBody \/ WaiterBody \/ StopReturn)
    /\ SF_vars(JobStop \/ ExpStop)

(* ----------------- claims about the processing job's tick --------------- *)
IsWellFormed(line) == ~UnmarshalFails(line)

\* name is the live file's base name, a '.', and one or more decimal digits
IsBaseDotDigits(name) ==
    /\ Len(name) > Len(auditLogFile) + 1
    /\ SubSeq(name, 1, Len(auditLogFile)) = auditLogFile
    /\ name[Len(auditLogFile) + 1] = "."
    /\ \A i \in (Len(auditLogFile) + 2)..Len(name) : name[i] \in DigitChars

\* the number the digits after the '.' spell
SuffixSeconds(name) == DigitsValue(SubSeq(name, Len(auditLogFile) + 2, Len(name)))

\* the step in which a tick of the processing job ends with ProcessLogFile
\* having read the whole backup
TickCompletes == pc[Job] = "pscan" /\ pc'[Job] = "wait" /\ ~procResult'.scanErr

\* the backup and the handler calls a completed tick leaves behind
TickBackupAndCalls ==
    /\ IsBaseDotDigits(result[Job].filename)
    /\ SuffixSeconds(result[Job].filename) * Resolution <= now
    /\ result[Job].filename \in DOMAIN dir'
    /\ dir'[result[Job].filename] = RegularFile(atLock[Job].data)
    /\ atLock[Job].data # <<>>
    /\ calls' = SelectSeq(atLock[Job].data, IsWellFormed)

\* the lines written to the live file after the job's rotation took the lock
AppendedSinceLock ==
    SubSeq(written, atLock[Job].data[Len(atLock[Job].data)].id + 1, Len(written))

\* C6 as stated: after a tick that found a non-empty live file and met no I/O
\* failure, the live file has length 0, the backup <base>.<unix-seconds> holds
\* exactly what the live file held when rotation took the lock, and the handler
\* was invoked once for each well-formed line of that content.
C6_TickLeavesLiveEmpty ==
    [][TickCompletes =>
          /\ TickBackupAndCalls
          /\ auditLogFile \in DOMAIN dir'
          /\ Len(dir'[auditLogFile].data) = 0]_vars

\* C6 as amended: after such a tick the live file holds exactly the lines that
\* requests appended after rotation took the lock (length 0 when there were
\* none); the backup and the handler calls are as stated.
C6_TickPostcondition ==
    [][TickCompletes =>
          /\ TickBackupAndCalls
          /\ auditLogFile \in DOMAIN dir'
          /\ dir'[auditLogFile].data = AppendedSinceLock]_vars

\* a tick has ended after rotating and parsing two lines or more, and a request
\* appended a line after the rotation
C6_Witness ==
    /\ pc[Job] = "wait"
    /\ procResult.err \in {"nil", "errors"} /\ ~procResult.scanErr
    /\ Len(scanned) >= 2 /\ scanned = atLock[Job].data
    /\ calls = SelectSeq(scanned, IsWellFormed) /\ calls # <<>>
    /\ Entry(result[Job].filename) = RegularFile(scanned)
    /\ LiveData # <<>> /\ LiveData = AppendedSinceLock

\* C7: a ProcessLogFile call whose scan met no read failure has dispatched
\* exactly the lines that deserialize, in file order, whatever invalid lines
\* lie between them, and returns the aggregate error exactly when some line
\* failed to deserialize.
C7_OneCallPerValidLine ==
    (pc[Job] # "pscan" /\ procResult.err \in {"nil", "errors"} /\ ~procResult.scanErr)
        => /\ calls = SelectSeq(scanned, IsWellFormed)
           /\ (procResult.err = "errors") <=> (\E i \in 1..Len(scanned) : ~IsWellFormed(scanned[i]))

\* a file with a valid line before and after an invalid one has been processed
C7_Witness ==
    /\ pc[Job] = "wait"
    /\ procResult = [err |-> "errors", scanErr |-> FALSE]
    /\ \E i, j, k \in 1..Len(scanned) :
          /\ i < j /\ j < k
          /\ IsWellFormed(scanned[i]) /\ ~IsWellFormed(scanned[j]) /\ IsWellFormed(scanned[k])
    /\ Len(calls) >= 2

\* C8: the check of a tick reports false without error for an absent file and
\* for an empty one, true for a non-empty one (when os.Stat works); a tick that
\* finds the live file absent or empty ends there: it takes no lock, creates no
\* backup, truncates nothing and calls no handler.
C8_EmptyTickDoesNothing ==
    [][(pc[Job] = "check" /\ pc'[Job] # "check") =>
          /\ ~Exists(auditLogFile) => checked' = [exist |-> FALSE, err |-> "nil"]
          /\ checked'.err = "nil" => (checked'.exist <=> Len(LiveData) > 0)
          /\ Len(LiveData) > 0 /\ checked'.err = "nil" => pc'[Job] = "rlock"
          /\ Len(LiveData) = 0 =>
                /\ pc'[Job] = "wait"
                /\ UNCHANGED <<dir, locked, copyName, result, atLock, scanned, calls,
                               procResult>>]_vars

\* ticks have found the live file empty, some line having been rotated away
\* before, and absent: the job is waiting and the directory is as it was
C8_Witness ==
    /\ pc[Job] = "wait"
    /\ checked = [exist |-> FALSE, err |-> "nil"]
    /\ Len(LiveData) = 0
    /\ locked = FALSE
    /\ \/ ~Exists(auditLogFile) /\ result[Job] = NoResult
       \/ Exists(auditLogFile) /\ result[Job].err = "nil"

(* ---------------------- claims about expiration ------------------------ *)
\* the step in which an expiration pass goes through the listed entries
SweepStep == pc[Expirer] = "esweep" /\ pc'[Expirer] # "esweep"

\* how long before the pass's reading of the clock the name's second began
AgeAtSweep(name) == sweepNow - SuffixSeconds(name) * Resolution

\* C9: an expiration pass deletes a listed regular file named
\* <base>.<unix-seconds> only if now - timestamp is strictly greater than the
\* retention, and it deletes every such file (when no os.Remove fails); a
\* backup whose age equals the retention is retained.
C9_DeletesExactlyTheExpired ==
    [][SweepStep =>
          \A n \in DOMAIN dir :
              (n \in DOMAIN files /\ files[n] = "file" /\ IsBaseDotDigits(n)) =>
                  /\ n \notin DOMAIN dir' => AgeAtSweep(n) > LogExpiration
                  /\ (AgeAtSweep(n) > LogExpiration /\ faults' = faults)
                        => n \notin DOMAIN dir']_vars

\* a pass has deleted a backup older than the retention and kept one whose age
\* is exactly the retention
C9_Witness ==
    /\ pc[Expirer] = "ewait"
    /\ \E n, m \in DOMAIN files :
          /\ files[n] = "file" /\ IsBaseDotDigits(n)
          /\ files[m] = "file" /\ IsBaseDotDigits(m)
          /\ n \notin DOMAIN dir /\ AgeAtSweep(n) > LogExpiration
          /\ m \in DOMAIN dir /\ AgeAtSweep(m) = LogExpiration

\* C10: an expiration pass removes no entry other than a regular file whose
\* name is the base log filename, a '.', and decimal digits.
C10_DeletesOnlyBaseDotDigits ==
    [][SweepStep =>
          \A n \in (DOMAIN dir) \ (DOMAIN dir') :
              dir[n].kind = "file" /\ IsBaseDotDigits(n)]_vars

(* ------------------ claims about starting and stopping ------------------ *)
JobProcs == {Job, Expirer}

\* the job's completion signal
Done(p) == IF p = Job THEN processingDone ELSE expirationDone

PositiveIntervals == ProcessingJobInterval > 0 /\ ExpirationJobInterval > 0

\* the job was never started, or has left its loop and closed its signal
Stopped(p) == pc[p] = "off" \/ (pc[p] = "exited" /\ Done(p) = "closed")

\* C11: Stop has returned nil only if every job that was started before it,
\* also one whose goroutine had not yet run its first statement, has left its
\* loop and closed its completion signal.
C11_GracefulStopMeansJobsStopped ==
    (stopResult = "nil" /\ PositiveIntervals) => \A p \in JobProcs : Stopped(p)

\* C12: when Stop is called while both jobs are inside a tick, it returns nil
\* only after both jobs have finished and closed their signals, and the
\* deadline error only when the deadline has elapsed; and Stop does return and
\* both jobs do finish their tick, leave their loop and close their signals,
\* also after Stop has returned the deadline error.
C12_StopWhileMidTick ==
    /\ [](atStop = "midtick" =>
             /\ stopResult = "nil" => \A p \in JobProcs : Stopped(p)
             /\ stopResult = "timeout" => ctxDone)
    /\ (atStop = "midtick") ~> (stopResult # "none" /\ \A p \in JobProcs : Stopped(p))

\* Stop was called during a rotation and an expiration pass and returned the
\* deadline error; both jobs have since finished and closed their signals
C12_Witness ==
    /\ atStop = "midtick" /\ stopResult = "timeout"
    /\ \A p \in JobProcs : pc[p] = "exited" /\ Done(p) = "closed"
    /\ result[Job].err = "nil" /\ expResult = "nil"

\* C13: Stop returns nil without the deadline having to elapse whichever of
\* the two jobs were started, in whichever order: it waits for no job that was
\* not started, and once the stop signal is raised Stop returns nil unless the
\* deadline elapses first.
C13_StopWaitsOnlyForStartedJobs == stopSignal ~> (stopResult = "nil" \/ ctxDone)

\* only the processing job was started; Stop has returned nil before the
\* deadline, the job having left its loop
C13_Witness ==
    /\ stopResult = "nil" /\ ~ctxDone
    /\ pc[Job] = "exited" /\ processingDone = "closed"
    /\ pc[Expirer] = "off" /\ expirationDone = "nil"

\* the job's select
LoopPc(p) == IF p = Job THEN "wait" ELSE "ewait"

\* C14: once the stop signal is raised every started job leaves its loop and
\* closes its completion signal (under fair scheduling); a job leaves its loop
\* only from its select, never from inside a pass, and a rotation that took the
\* lock leaves rotateLogs only by a return that releases the lock, a successful
\* one only after the copy and the truncate.
C14_JobsExitAfterStop ==
    /\ stopSignal ~> (\A p \in JobProcs : Stopped(p))
    /\ [][/\ \A p \in JobProcs :
               (pc'[p] = "exited" /\ pc[p] # "exited") => (pc[p] = LoopPc(p) /\ stopSignal)
          /\ (pc[Job] \in RotatePcs /\ pc'[Job] \notin RotatePcs) =>
               /\ ~locked'
               /\ pc'[Job] \in {"popen", "wait"}
               /\ pc'[Job] = "popen" =>
                     /\ pc[Job] = "rtrunc"
                     /\ dir'[auditLogFile] = RegularFile(<<>>)]_vars

\* Stop was called during a rotation and an expiration pass; both passes ran to
\* their end, both jobs have left their loops, and Stop has returned nil
C14_Witness ==
    /\ atStop = "midtick" /\ stopResult = "nil"
    /\ \A p \in JobProcs : pc[p] = "exited" /\ Done(p) = "closed"
    /\ result[Job].err = "nil" /\ procResult.err = "nil" /\ expResult = "nil"
    /\ ~locked

\* a tick body of job p begins in this step
TickBegins(p) == pc[p] = LoopPc(p) /\ pc'[p] \in TickPcs

\* C15: once the stop signal is raised no job begins a new tick body (no new
\* stat, rotation, parse or sweep), also when a tick is pending as the job
\* comes back to its select: here for jobs that were inside a tick when the
\* signal was raised and so come back to a select with the signal closed.
C15_NoNewTickAfterStop ==
    [][(stopSignal /\ atStop = "midtick") => \A p \in JobProcs : ~TickBegins(p)]_vars

\* a tick of job p ends in failure in this step
TickFails(p) ==
    IF p = Job
    THEN /\ pc[Job] \in TickPcs /\ pc'[Job] \notin TickPcs
         /\ \/ checked'.err = "stat" /\ pc[Job] = "check"
            \/ result'[Job].err \notin {"nil", "none"} /\ pc[Job] \in RotatePcs
            \/ procResult'.err # "nil" /\ pc[Job] \in {"popen", "pscan"}
    ELSE /\ pc[Expirer] \in TickPcs /\ pc'[Expirer] \notin TickPcs
         /\ expResult' # "nil"

\* C16: a job whose tick fails (the stat, the rotation, the parse, the
\* expiration pass) is back at its select, where the next tick is received;
\* whatever a tick does, a job leaves its loop only in a step from its select
\* with the stop signal raised.
C16_TickFailureKeepsJobRunning ==
    [][PositiveIntervals =>
          \A p \in JobProcs :
             /\ TickFails(p) => pc'[p] = LoopPc(p)
             /\ (pc[p] \in TickPcs /\ pc'[p] # pc[p]) => pc'[p] \in TickPcs \cup {LoopPc(p)}
             /\ (pc[p] \in TickPcs \cup {LoopPc(p)} /\ pc'[p] \notin TickPcs \cup {LoopPc(p)})
                   => (pc[p] = LoopPc(p) /\ stopSignal /\ pc'[p] = "exited")]_vars

\* a rotation failed in its copy, and the processing job has since received
\* its next tick
C16_Witness ==
    /\ faults > 0
    /\ result[Job].err = "copy"
    /\ pc[Job] = "check"
    /\ ~stopSignal

(* ------------------ claims about errors and configuration --------------- *)
\* C17: a ProcessLogFile call whose scan ended in a read failure returns the
\* read-failure error, not the aggregate error, whatever lines came before.
C17_ReadFailureReported ==
    procResult.scanErr => procResult.err = "read"

\* the expired backups of the listing: regular files named <base>.<digits>
\* whose age at the pass's reading of the clock is above the retention
ExpiredBackups ==
    {n \in DOMAIN files :
        files[n] = "file" /\ IsBaseDotDigits(n) /\ AgeAtSweep(n) > LogExpiration}

\* C18: expireBackupLogFiles returns an error only when the listing of the
\* directory failed; a pass that got its listing returns nil, and of the
\* expired backups it leaves on disk only those whose os.Remove failed: one
\* failing deletion does not keep it from deleting the others.
C18_DeletionFailureDoesNotAbort ==
    [][/\ expResult' # expResult =>
             \/ expResult' = "nil" /\ SweepStep
             \/ expResult' = "readdir" /\ pc[Expirer] = "elist" /\ faults' = faults + 1
       /\ SweepStep =>
             /\ expResult' = "nil"
             /\ Cardinality(ExpiredBackups \cap DOMAIN dir \cap DOMAIN dir') <= faults' - faults]_vars

\* a pass over two expired backups has returned nil: the deletion of one of
\* them failed, the other is gone
C18_Witness ==
    /\ pc[Expirer] = "ewait" /\ expResult = "nil" /\ faults > 0
    /\ \E n, m \in ExpiredBackups : n \in DOMAIN dir /\ m \notin DOMAIN dir

\* C19: with the retention LogExpiration left at zero no expiration pass
\* deletes a backup file: every regular file named <base>.<digits> that is on
\* disk before a pass is on disk after it.
C19_ZeroRetentionDeletesNothing ==
    [][(SweepStep /\ LogExpiration = 0) =>
          \A n \in DOMAIN dir :
              (dir[n].kind = "file" /\ IsBaseDotDigits(n)) => n \in DOMAIN dir']_vars

\* the configured interval of job p
Interval(p) == IF p = Job THEN ProcessingJobInterval ELSE ExpirationJobInterval

\* C20: a job started with a zero interval does not crash the process: it is
\* waiting to run, in its loop without ever a tick, or gone after Stop.
C20_ZeroIntervalDisablesJob ==
    (\E p \in JobProcs : Interval(p) = 0) =>
        /\ ~Crashed
        /\ \A p \in JobProcs : Interval(p) = 0 => pc[p] \in {"off", "launched", LoopPc(p), "exited"}

(* ------------------- claims about the backups as files ------------------ *)
\* the backup files that completed rotations have written and returned
WrittenBackups == {result[p].filename : p \in {q \in Procs : result[q].err = "nil"}}

\* C21: once a rotation has written a backup file, no later step (of a later
\* rotation, among appends to the live file) changes the content of that file
\* while it is on disk.
C21_BackupsImmutable ==
    [][\A n \in WrittenBackups :
          (Exists(n) /\ n \in DOMAIN dir') => dir'[n] = dir[n]]_vars

\* p reads the clock and creates its backup in this step
NamesBackup(p) == pc[p] = "rcreate" /\ pc'[p] = "rcopy"

\* C22: a rotation names its backup <base>.<s>, s being the whole second of the
\* clock reading it takes; a successful rotateLogs returns that name, with s no
\* smaller than the suffix any earlier successful rotation returned, and a
\* failed rotateLogs returns the empty name.
C22_ReturnedPath ==
    [][\A p \in Rotators :
          /\ NamesBackup(p) =>
                /\ IsBaseDotDigits(copyName'[p])
                /\ SuffixSeconds(copyName'[p]) * Resolution <= now
                /\ now < (SuffixSeconds(copyName'[p]) + 1) * Resolution
          /\ (ReturnsFromRotate(p) /\ result'[p].err = "nil") =>
                /\ result'[p].filename = copyName[p]
                /\ IsBaseDotDigits(copyName[p])
                /\ \A q \in Rotators :
                      result[q].err = "nil" =>
                          SuffixSeconds(result[q].filename) <= SuffixSeconds(copyName[p])
          /\ (ReturnsFromRotate(p) /\ result'[p].err # "nil") =>
                result'[p].filename = NoName
      ]_vars

\* two rotations have returned names of different seconds, and a third call
\* would be the failed one: here one rotation failed after naming its backup
C22_Witness ==
    \E p, q \in Rotators :
        /\ result[p].err = "nil" /\ result[q].err \in {"copy", "truncate"}
        /\ copyName[q] # NoName /\ result[q].filename = NoName
        /\ SuffixSeconds(result[p].filename) < SuffixSeconds(copyName[q])

\* C23: no step of the processor (rotation, parsing, expiration) deletes or
\* renames the live file: once it exists it stays at its path, and the only
\* change made to it is the truncation to length 0 that ends a rotation.
C23_LiveFileOnlyTruncated ==
    [][Exists(auditLogFile) =>
          /\ auditLogFile \in DOMAIN dir'
          /\ dir'[auditLogFile] # dir[auditLogFile] =>
                /\ \E p \in Procs : pc[p] = "rtrunc" /\ pc'[p] # "rtrunc"
                /\ dir'[auditLogFile] = RegularFile(<<>>)
      ]_vars

\* a tick has rotated and parsed the live file's line and a sweep has deleted
\* the old backup beside it: the live file is there, empty
C23_Witness ==
    /\ initial.data # <<>>
    /\ Entry(auditLogFile) = RegularFile(<<>>)
    /\ result[Job].err = "nil" /\ procResult.err # "none"
    /\ ~Exists(OldBackup) /\ expResult = "nil"

\* a step of ProcessLogFile: its os.Open, or its scan and return
ParseStep == pc[Job] \in {"popen", "pscan"} /\ pc'[Job] # pc[Job]

\* C24: ProcessLogFile leaves the file system as it is, whatever it returns:
\* the file it was given and every other file keep their existence, name and
\* content.
C24_ParseLeavesFilesAlone == [][ParseStep => dir' = dir]_vars

\* ProcessLogFile has returned its parse-error result after a handler call,
\* and the backup it read is on disk with the lines it read
C24_Witness ==
    /\ pc[Job] = "wait" /\ procResult.err = "errors" /\ calls # <<>>
    /\ Exists(result[Job].filename)
    /\ dir[result[Job].filename] = RegularFile(scanned)

(* --------------------- claims about the two jobs' ticks ----------------- *)
\* the first statement of job p's tick body
FirstPc(p) == IF p = Job THEN "check" ELSE "elist"

\* C25: the ticks of one job never overlap: a tick body of a job is entered
\* only at its first statement and only from the job's select, that is, when
\* no tick body of that job is executing, however long the body before took.
\* (A processing tick and an expiration sweep may execute at the same time.)
C25_TicksOfAJobNeverOverlap ==
    [][\A p \in JobProcs :
          /\ (pc'[p] \in TickPcs /\ pc[p] \notin TickPcs) =>
                (pc[p] = LoopPc(p) /\ pc'[p] = FirstPc(p))
          /\ (pc'[p] = FirstPc(p) /\ pc[p] # FirstPc(p)) => pc[p] = LoopPc(p)
      ]_vars

\* the processing job is in its second tick while an expiration sweep is
\* executing
C25_Witness ==
    /\ pc[Job] = "check" /\ result[Job].err = "nil" /\ procResult.err # "none"
    /\ pc[Expirer] = "esweep"

(* ------------- the two jobs side by side while the clock runs ----------- *)
\* both jobs in their loops over a directory holding the live file alone, with
\* a positive retention
InitBoth ==
    /\ initial \in InitialLiveLife
    /\ dir = IF initial = Absent THEN <<>> ELSE WithEntry(<<>>, auditLogFile, initial)
    /\ locked = FALSE
    /\ now = 0
    /\ pc = [p \in Procs |-> IF p = Job THEN "wait"
                             ELSE IF p = Expirer THEN "ewait" ELSE "off"]
    /\ copyName = [p \in Procs |-> NoName]
    /\ result = [p \in Procs |-> NoResult]
    /\ atLock = [p \in Procs |-> Absent]
    /\ checked = NoCheck
    /\ scanned = <<>>
    /\ calls = <<>>
    /\ delivered = <<>>
    /\ procResult = NoProcResult
    /\ LogExpiration \in 1..MaxRetention
    /\ files = <<>>
    /\ sweepNow = 0
    /\ written = initial.data
    /\ appends = 0
    /\ faults = 0
    /\ HandlerUnused
    /\ ServerUnused
    /\ InitLifecycle({Job, Expirer})

NextBoth ==
    \/ ClockTick
    \/ JobTick
    \/ JobCheck
    \/ RotLock(Job)
    \/ RotOpen(Job)
    \/ RotCreate(Job)
    \/ RotCopy(Job)
    \/ RotTruncate(Job)
    \/ ProcOpen
    \/ ProcScan
    \/ ExpTick
    \/ ExpList
    \/ ExpSweep

SpecBoth == InitBoth /\ [][NextBoth]_vars

\* the files the processing tick is writing or reading: the live file, the
\* backup its rotation has created, the backup it has rotated and is parsing
TickFiles ==
    {auditLogFile}
    \cup (IF pc[Job] \in {"rcopy", "rtrunc"} THEN {copyName[Job]} ELSE {})
    \cup (IF pc[Job] \in {"popen", "pscan"} THEN {result[Job].filename} ELSE {})

\* C26: an expiration sweep beside a processing tick leaves the tick's files
\* alone: its deletions never remove or change the live file, the backup the
\* tick is writing, or the backup the tick has rotated and not finished parsing.
C26_SweepLeavesTickFilesAlone ==
    [][(pc[Expirer] = "esweep" /\ pc'[Expirer] # "esweep") =>
          \A n \in TickFiles :
              Exists(n) => (n \in DOMAIN dir' /\ dir'[n] = dir[n])]_vars

(* ------- the default handler and the proxy, apart from the two jobs ----- *)
\* the processor as NewLogProcessor returns it, with no job started and
\* nothing in its directory
ProcessorUnused ==
    /\ initial = Absent
    /\ dir = <<>>
    /\ locked = FALSE
    /\ now = 0
    /\ pc = [p \in Procs |-> "off"]
    /\ copyName = [p \in Procs |-> NoName]
    /\ result = [p \in Procs |-> NoResult]
    /\ atLock = [p \in Procs |-> Absent]
    /\ checked = NoCheck
    /\ scanned = <<>>
    /\ calls = <<>>
    /\ delivered = <<>>
    /\ procResult = NoProcResult
    /\ LogExpiration = 0
    /\ files = <<>>
    /\ sweepNow = 0
    /\ written = <<>>
    /\ appends = 0
    /\ faults = 0
    /\ InitLifecycle({})

\* the handler about to be called, again and again, for one record
InitHandler ==
    /\ logEntry \in Logs
    /\ handled = 0
    /\ handlerResult = "none"
    /\ warnings = 0
    /\ metricAuditLogTransactionsCount = <<>>
    /\ metricAuditLogRuleViolations = <<>>
    /\ ProcessorUnused
    /\ ServerUnused

NextHandler == LogHandlerCall

SpecHandler == InitHandler /\ [][NextHandler]_vars

\* main about to build the WAF handler, in an environment from Envs, and the
\* request a client is going to send
InitServe ==
    /\ DIRECTIVES \in Envs
    /\ directivesFromEnv = NoDirectives
    /\ mainPc = "start"
    /\ incoming \in HttpRequests
    /\ forwarded = NoRequest
    /\ nextCalls = 0
    /\ ProcessorUnused
    /\ HandlerUnused

NextServe ==
    \/ LoadDirectives
    \/ NewWAF
    \/ RunServersInBackground
    \/ ServeRequest

SpecServe == InitServe /\ [][NextServe]_vars

(* ------------------ claims about the default log handler ---------------- *)
\* the sum of the counts the counter holds under the label sets in labels
RECURSIVE SumOver(_, _)
SumOver(counter, labels) ==
    IF labels = {} THEN 0
    ELSE LET l == CHOOSE x \in labels : TRUE IN counter[l] + SumOver(counter, labels \ {l})

Total(counter) == SumOver(counter, DOMAIN counter)

\* the increments made under the rule identifier key, whatever the other labels
TotalForRule(counter, key) == SumOver(counter, {l \in DOMAIN counter : l[1] = key})

C28_MissingDirectivesIsFatal ==
    /\ (~DIRECTIVES.set \/ DIRECTIVES.value = "") =>
          /\ mainPc \in {"start", "fatal"}
          /\ mainPc = "fatal" => directivesFromEnv.err \notin {"nil", "none"}
          /\ nextCalls = 0
    /\ (DIRECTIVES.set /\ DIRECTIVES.value # "" /\ mainPc # "start") =>
          directivesFromEnv = [directives |-> DIRECTIVES.value, err |-> "nil"]

\* the process has ended in NewCorazaWAFHandler because DIRECTIVES is not set
C28_Witness == ~DIRECTIVES.set /\ mainPc = "fatal" /\ directivesFromEnv.err # "nil"

(* ------------------- claims about ProxyHeaderMiddleware ----------------- *)
\* a request passes through the middleware in this step
RequestStep == forwarded' # forwarded \/ nextCalls' # nextCalls

\* the text of s before its first comma
FirstElement(s) ==
    LET commas == {i \in 1..Len(s) : s[i] = ","} IN
    IF commas = {} THEN s
    ELSE SubSeq(s, 1, (CHOOSE i \in commas : \A j \in commas : i <= j) - 1)

\* s without the white space around it
Trimmed(s) ==
    LET inner == {i \in 1..Len(s) : s[i] \notin WhiteSpace} IN
    IF inner = {} THEN <<>>
    ELSE SubSeq(s, CHOOSE i \in inner : \A j \in inner : i <= j,
                   CHOOSE i \in inner : \A j \in inner : i >= j)

\* the first element of the request's X-Forwarded-For header, trimmed; empty
\* when the header is absent
ClientElement(r) == Trimmed(FirstElement(HeaderGet(r.Header, "X-Forwarded-For")))

\* the port of the request's RemoteAddr, or 0 when it has none
PortOrZero(r) ==
    IF SplitHostPort(r.RemoteAddr).err = "nil" THEN SplitHostPort(r.RemoteAddr).port
    ELSE <<"0">>

NeedsBrackets(elem) == \E i \in 1..Len(elem) : elem[i] \in {":", "%"}

C30_ForwardedHeadersIndependent ==
    [][RequestStep =>
          LET Value(n) == HeaderGet(incoming.Header, n)
              Or(v, old) == IF v # <<>> THEN v ELSE old
          IN  /\ nextCalls' = nextCalls + 1
              /\ forwarded'.URL.Scheme = Or(Value("X-Forwarded-Proto"), incoming.URL.Scheme)
              /\ forwarded'.Host = Or(Value("X-Forwarded-Host"), incoming.Host)
              /\ forwarded'.URL.Host = Or(Value("X-Forwarded-Host"), incoming.URL.Host)
              /\ forwarded'.URL.Path = Or(Value("X-Forwarded-Uri"), incoming.URL.Path)
              /\ forwarded'.Method = Or(Value("X-Forwarded-Method"), incoming.Method)
              /\ forwarded'.Header = incoming.Header
              /\ (\A n \in HeaderNames : Value(n) = <<>>) => forwarded' = incoming
      ]_vars

\* a request with the four headers and no X-Forwarded-For went on with the
\* four fields rewritten and its RemoteAddr as it came
C30_Witness ==
    /\ nextCalls > 0
    /\ "X-Forwarded-For" \notin DOMAIN incoming.Header
    /\ forwarded.RemoteAddr = incoming.RemoteAddr
    /\ forwarded.URL = [Scheme |-> <<"s">>, Host |-> <<"e">>, Path |-> <<"/", "n">>]
    /\ forwarded.Host = <<"e">> /\ forwarded.Method = <<"P">>

(* ------- the two jobs beside the request handlers, the clock standing ---- *)
InitShare ==
    /\ initial \in InitialLiveLife
    /\ dir = WithEntry(IF initial = Absent THEN <<>> ELSE WithEntry(<<>>, auditLogFile, initial),
                       OldBackup, RegularFile(<<>>))
    /\ locked = FALSE
    /\ now = MaxNow
    /\ pc = [p \in Procs |-> IF p = Job THEN "wait"
                             ELSE IF p = Expirer THEN "ewait"
                             ELSE IF p = Handler THEN "hidle" ELSE "off"]
    /\ copyName = [p \in Procs |-> NoName]
    /\ result = [p \in Procs |-> NoResult]
    /\ atLock = [p \in Procs |-> Absent]
    /\ checked = NoCheck
    /\ scanned = <<>>
    /\ calls = <<>>
    /\ delivered = <<>>
    /\ procResult = NoProcResult
    /\ LogExpiration = Resolution
    /\ files = <<>>
    /\ sweepNow = 0
    /\ written = initial.data
    /\ appends = 0
    /\ faults = 0
    /\ HandlerUnused
    /\ ServerUnused
    /\ InitLifecycle({Job, Expirer})

NextShare ==
    \/ JobTick
    \/ JobCheck
    \/ RotLock(Job)
    \/ RotOpen(Job)
    \/ RotCreate(Job)
    \/ RotCopy(Job)
    \/ RotTruncate(Job)
    \/ ProcOpen
    \/ ProcScan
    \/ ExpTick
    \/ ExpList
    \/ ExpSweep
    \/ HandlerLock
    \/ HandlerServe
    \/ HandlerPanic

SpecShare == InitShare /\ [][NextShare]_vars

\* C31: the processor holds the shared lock only inside rotateLogs: whenever
\* the processing job is outside rotateLogs (waiting for a tick, in
\* checkIfLogsExist, in ProcessLogFile and its handler calls) the lock is free
\* or held by a request handler, whatever the expiration job is doing; so a
\* request handler is blocked by the processor only during a copy-and-truncate.
C31_LockOnlyInsideRotate ==
    (pc[Job] \notin RotatePcs /\ pc[Handler] # "serve") => ~locked

\* a request handler holds the lock while the job parses and the sweep runs
C31_Witness ==
    /\ pc[Job] = "pscan" /\ scanned # <<>>
    /\ pc[Expirer] = "esweep"
    /\ pc[Handler] = "serve" /\ locked

(* ------------- the waiters of the mutex, under fair scheduling ------------ *)
NextLock ==
    \/ \E p \in Rotators : RotLock(p)
    \/ \E p \in Rotators : RotOpen(p)
    \/ \E p \in Rotators : RotCreate(p)
    \/ \E p \in Rotators : RotCopy(p)
    \/ \E p \in Rotators : RotTruncate(p)
    \/ HandlerLock
    \/ HandlerServe
    \/ HandlerPanic

\* the steps taken with the mutex held
LockBody ==
    \/ \E p \in Rotators : RotOpen(p) \/ RotCreate(p) \/ RotCopy(p) \/ RotTruncate(p)
    \/ HandlerServe
    \/ HandlerPanic

\* Every system call made under the mutex returns and the wrapped handler
\* returns or panics (weak fairness of the one goroutine inside).  A goroutine
\* blocked in Lock is woken when the mutex is released, and sync.Mutex hands
\* the mutex to the longest waiter once that one has waited for a millisecond:
\* while rotations wait and the mutex keeps being released, one of them gets it
\* (strong fairness of the waiters' Lock).  Nothing makes a request arrive.
FairLock ==
    /\ InitRot
    /\ [][NextLock]_vars
    /\ WF_vars(LockBody)
    /\ SF_vars(\E p \in Rotators : RotLock(p))

\* C32: the shared lock is always released: whoever leaves a critical
\* section (rotateLogs returning, with or without an error, a request handler
\* finishing, by a return or by a panic) leaves the lock free; every holding of
\* the lock ends; and every rotation waiting for the lock gets it and returns.
C32_LockAlwaysReleased ==
    /\ [][\A p \in Procs :
            (InCritical(p) /\ pc'[p] \notin RotatePcs \cup {"serve"}) => ~locked']_vars
    /\ locked ~> ~locked
    /\ \A p \in Rotators : (pc[p] = "rlock") ~> (pc[p] = "done")

\* a rotation is inside the lock after another rotation failed and after a
\* request panicked without writing its audit line
C32_Witness ==
    \E p, q \in Rotators :
        /\ pc[p] = "done" /\ result[p].err # "nil"
        /\ pc[q] \in RotatePcs
        /\ pc[Handler] = "hidle" /\ appends > 0 /\ written = initial.data

(* --------------------- dispatch over the ticks of a job ------------------- *)
\* C33: at-most-once dispatch across ticks: over the ticks of one processing
\* job, with request handlers appending lines under the lock and with failures
\* at any step of a rotation or of the parse, no line is passed to the handler
\* twice, by the same tick or by a later one.
C33_AtMostOnceDispatch ==
    \A i, j \in 1..Len(delivered) : delivered[i] = delivered[j] => i = j

\* a tick left a complete copy behind and failed before it had truncated the
\* live file; a later tick, in another second, copied the same lines again and
\* dispatched them
C33_Witness ==
    /\ pc[Job] = "wait" /\ delivered # <<>>
    /\ \E m, n \in BackupNames :
          /\ m # n
          /\ dir[m].data = delivered /\ dir[n].data = delivered

(* ---------- the processing job under fair scheduling, no I/O failure ------ *)
\* the processing job started over a live file, the failure budget used up
InitFairJob ==
    /\ initial \in InitialLiveLife
    /\ dir = IF initial = Absent THEN <<>> ELSE WithEntry(<<>>, auditLogFile, initial)
    /\ locked = FALSE
    /\ now = 0
    /\ pc = [p \in Procs |-> IF p = Job THEN "wait"
                             ELSE IF p = Handler THEN "hidle" ELSE "off"]
    /\ copyName = [p \in Procs |-> NoName]
    /\ result = [p \in Procs |-> NoResult]
    /\ atLock = [p \in Procs |-> Absent]
    /\ checked = NoCheck
    /\ scanned = <<>>
    /\ calls = <<>>
    /\ delivered = <<>>
    /\ procResult = NoProcResult
    /\ LogExpiration = 0
    /\ files = <<>>
    /\ sweepNow = 0
    /\ written = initial.data
    /\ appends = 0
    /\ faults = MaxFaults
    /\ HandlerUnused
    /\ ServerUnused
    /\ InitLifecycle({Job})

NextFairJob ==
    \/ ClockTick
    \/ JobTick
    \/ JobCheck
    \/ RotLock(Job)
    \/ RotOpen(Job)
    \/ RotCreate(Job)
    \/ RotCopy(Job)
    \/ RotTruncate(Job)
    \/ ProcOpen
    \/ ProcScan
    \/ HandlerLock
    \/ HandlerServe
    \/ HandlerPanic

\* the steps of the job's loop and of a request handler that holds the mutex
TickBody ==
    \/ JobTick
    \/ JobCheck
    \/ RotOpen(Job)
    \/ RotCreate(Job)
    \/ RotCopy(Job)
    \/ RotTruncate(Job)
    \/ ProcOpen
    \/ ProcScan
    \/ HandlerServe
    \/ HandlerPanic

\* The ticker of a running job keeps firing (its interval is positive), every
\* system call of a tick returns and a request handler returns or panics: weak
\* fairness of the steps of the two goroutines.  The job blocked in Lock gets
\* the mutex while request handlers keep releasing it (strong fairness).
\* Nothing makes a request arrive or the clock advance.
FairJob ==
    /\ InitFairJob
    /\ [][NextFairJob]_vars
    /\ WF_vars(TickBody)
    /\ SF_vars(RotLock(Job))

\* the lines of a file name of the directory, none when there is no such file
DataOf(name) == IF Exists(name) THEN dir[name].data ELSE <<>>

InSeq(x, seq) == \E k \in 1..Len(seq) : seq[k] = x

\* every well-formed line written so far has been passed to the handler
AllDelivered == \A k \in 1..Len(written) : IsWellFormed(written[k]) => InSeq(written[k], delivered)

\* C34: progress of processing: with the job running and no I/O failure, no
\* well-formed line written to the live file is lost (it is in the live file,
\* in a backup, or has been passed to the handler: a line appended between the
\* tick's emptiness check and its rotation is in that tick's backup), and under
\* fair scheduling every such line is at some point passed to the handler.
C34_Progress ==
    /\ [](\A k \in 1..Len(written) :
            IsWellFormed(written[k]) =>
                \/ InSeq(written[k], LiveData)
                \/ \E n \in BackupNames : InSeq(written[k], DataOf(n))
                \/ InSeq(written[k], delivered))
    /\ []<>AllDelivered

\* one tick has dispatched the file's first line and the line a request
\* appended to it, the request being served before the tick's rotation
C34_Witness ==
    /\ pc[Job] = "wait" /\ appends > 0
    /\ Len(calls) >= 2 /\ calls = written /\ delivered = written

(* ------------- ProcessLogFile on a file, any handler in place ------------- *)
\* the file ProcessLogFile is called on
ScanFile == generateNewBackupFilename(0)

\* ProcessLogFile(ScanFile) is about to run, the file holding any lines
InitScan ==
    /\ initial = Absent
    /\ \E n \in 0..MaxScanLines : \E kinds \in [1..n -> HandledKinds] :
          dir = WithEntry(<<>>, ScanFile, RegularFile(NumberLines(kinds, 1)))
    /\ locked = FALSE
    /\ now = 0
    /\ pc = [p \in Procs |-> IF p = Job THEN "popen" ELSE "off"]
    /\ copyName = [p \in Procs |-> NoName]
    /\ result = [p \in Procs |-> IF p = Job THEN [filename |-> ScanFile, err |-> "nil"]
                                 ELSE NoResult]
    /\ atLock = [p \in Procs |-> Absent]
    /\ checked = NoCheck
    /\ scanned = <<>>
    /\ calls = <<>>
    /\ delivered = <<>>
    /\ procResult = NoProcResult
    /\ LogExpiration = 0
    /\ files = <<>>
    /\ sweepNow = 0
    /\ written = <<>>
    /\ appends = 0
    /\ faults = 0
    /\ HandlerUnused
    /\ ServerUnused
    /\ InitLifecycle({})

NextScan == ProcOpen \/ ProcScan

SpecScan == InitScan /\ [][NextScan]_vars

\* ProcessLogFile has returned after a scan that no read failure cut short
ScanCompleted == pc[Job] = "wait" /\ procResult.err \in {"nil", "errors"} /\ ~procResult.scanErr

\* C35: handler failures are isolated per record: the handler is never called
\* for a line that failed to deserialize, and a ProcessLogFile call that read
\* the whole file has called it for every line that deserializes, in file
\* order, the lines after a record the handler refused included, and returns
\* the aggregate error exactly when a line failed to deserialize or the handler
\* returned an error.
C35_HandlerFailuresIsolated ==
    /\ \A k \in 1..Len(calls) : ~UnmarshalFails(calls[k])
    /\ ScanCompleted =>
          /\ calls = SelectSeq(DataOf(ScanFile), LAMBDA l : ~UnmarshalFails(l))
          /\ procResult.err = "errors" <=>
                \E k \in 1..Len(scanned) :
                    UnmarshalFails(scanned[k]) \/ logHandler(scanned[k]) # "nil"

\* the handler refused the first record and was called for a later one; the
\* call returned the aggregate error
C35_Witness ==
    /\ ScanCompleted /\ procResult.err = "errors"
    /\ Len(calls) >= 2
    /\ logHandler(calls[1]) # "nil" /\ logHandler(calls[Len(calls)]) = "nil"
    /\ \A k \in 1..Len(scanned) : ~UnmarshalFails(scanned[k])

====
